---- MODULE Spec2Model ----
(***************************************************************************)
(* Verification model of the transformer text classifier: the optimizer    *)
(* (model_optimizer/optimizer.rs), the embeddings (embedding/embeddings.rs)*)
(* the flattened parameter view (classification_head.rs, encoder_layer.rs) *)
(* and the training loop (training/trainer.rs).                            *)
(*                                                                         *)
(* f64 values are carried as fixed-point integers:                         *)
(*   parameters                       in millionths (1e-6)                 *)
(*   gradients, probabilities, logits in thousandths (1e-3)                *)
(*   first moments                    in thousandths (1e-3)                *)
(*   second moments                   in millionths (1e-6)                 *)
(*   the Adam denominator             in units of 1e-8 (the unit of        *)
(*                                    EPSILON)                             *)
(***************************************************************************)
EXTENDS Integers, Sequences, FiniteSets, TLC

VARIABLES
    optimizer,      \* the Optimizer struct
    mats,           \* the caller's parameter matrices, one per shape
    opt_call,       \* the last Optimizer::step call: arguments, pre-state, outcome
    completed,      \* number of Optimizer::step calls that returned normally
    opt_status,     \* "ready", or "panicked" once a step has panicked
    emb,            \* an Embeddings struct
    emb_call,       \* the last Embeddings::encode call: input and outcome
    model,          \* Trainer.model, the Transformer
    model0,         \* the Transformer as it was constructed
    epochs,         \* Trainer.epochs
    tokenizer,      \* the Tokenizer of Trainer.data_loader
    data_file,      \* the file at dataset_path
    pc,             \* position of Trainer::train
    batches,        \* train: batches
    epoch,          \* train: epoch
    batch_idx,      \* train: number of batches the inner loop has taken
    epoch_loss,     \* train: epoch_loss
    correct_predictions, \* train: correct_predictions
    total_samples,  \* train: total_samples
    reports,        \* the per-epoch lines train has printed
    step_log,       \* the <<epoch, batch index>> of every completed batch step
    batch_call,     \* the last batch step: its batch, gradients and pre-state
    fn_call         \* the last call of a function that keeps no state: its
                    \* name, arguments and outcome

optVars == <<optimizer, mats, opt_call, completed, opt_status>>

embVars == <<emb, emb_call>>

trainVars == <<model, model0, epochs, tokenizer, data_file, pc, batches, epoch,
               batch_idx, epoch_loss, correct_predictions, total_samples, reports,
               step_log, batch_call>>

fnVars == <<fn_call>>

vars == <<optimizer, mats, opt_call, completed, opt_status, emb, emb_call,
          model, model0, epochs, tokenizer, data_file, pc, batches, epoch,
          batch_idx, epoch_loss, correct_predictions, total_samples, reports,
          step_log, batch_call, fn_call>>

-----------------------------------------------------------------------------
(* Option<T> *)

None == <<>>

Some(x) == <<x>>

Unwrap(o) == o[1]

-----------------------------------------------------------------------------
(* ndarray::Array2<f64>: a sequence of rows *)

Rows(m) == Len(m)

Cols(m) == IF Len(m) = 0 THEN 0 ELSE Len(m[1])

Shape(m) == <<Rows(m), Cols(m)>>

Zeros(shape) == [i \in 1..shape[1] |-> [j \in 1..shape[2] |-> 0]]

MatricesOver(shape, vals) == [1..shape[1] -> [1..shape[2] -> vals]]

\* ndarray broadcasting of a matrix of shape `from` to shape `to`
Broadcastable(from, to) == \A d \in 1..2 : from[d] = to[d] \/ from[d] = 1

Broadcast(m, to) ==
    [i \in 1..to[1] |-> [j \in 1..to[2] |->
        m[IF Rows(m) = 1 THEN 1 ELSE i][IF Cols(m) = 1 THEN 1 ELSE j]]]

\* ArrayBase::zip_mut_with panics unless rhs has self's shape or broadcasts to it
CanZip(self, rhs) == Broadcastable(Shape(rhs), Shape(self))

ZipMutWith(self, rhs, F(_, _)) ==
    LET b == Broadcast(rhs, Shape(self))
    IN  [i \in 1..Rows(self) |-> [j \in 1..Cols(self) |-> F(self[i][j], b[i][j])]]

Mapv(m, F(_)) == [i \in 1..Rows(m) |-> [j \in 1..Cols(m) |-> F(m[i][j])]]

RECURSIVE SumSeq(_)
SumSeq(s) == IF s = <<>> THEN 0 ELSE s[1] + SumSeq(Tail(s))

\* iter().fold(0.0, |acc, val| acc + val) over all elements
SumAll(m) == SumSeq([i \in 1..Rows(m) |-> SumSeq(m[i])])

-----------------------------------------------------------------------------
(* fixed-point arithmetic *)

Abs(x) == IF x < 0 THEN -x ELSE x

RECURSIVE SqrtSearch(_, _, _)
SqrtSearch(x, lo, hi) ==
    IF lo >= hi THEN lo
    ELSE LET mid == (lo + hi + 1) \div 2
         IN  IF mid * mid <= x THEN SqrtSearch(x, mid, hi)
                               ELSE SqrtSearch(x, lo, mid - 1)

\* f64::sqrt of a value in millionths, result in thousandths
Sqrt(x) == SqrtSearch(x, 0, IF x < 46340 THEN x ELSE 46340)

\* f64::powf(t) of a coefficient in thousandths, result in millionths
RECURSIVE Powf(_, _)
Powf(b, t) == IF t = 0 THEN 1000000 ELSE (Powf(b, t - 1) * b) \div 1000

\* a / d to two more decimal digits (a in 1e-6 * 1e-8 units, d in 1e-8 units,
\* result in 1e-8 of a millionth scaled back to millionths), sign of a kept
DivDigits(a, d) ==
    LET n  == Abs(a)
        q0 == n \div d
        r0 == n % d
        d1 == (r0 * 10) \div d
        r1 == (r0 * 10) % d
        d2 == (r1 * 10) \div d
        q  == q0 * 100 + d1 * 10 + d2
    IN  IF a < 0 THEN -q ELSE q

-----------------------------------------------------------------------------
(* configurration/config.rs *)

LEARNING_RATE == 1      \* 0.001, in thousandths

BETA1 == 900            \* 0.9, in thousandths

BETA2 == 999            \* 0.999, in thousandths

EPSILON == 1            \* 1e-8, in units of 1e-8

-----------------------------------------------------------------------------
(* model_optimizer/optimizer.rs *)

OptimizerType == {"SGD", "Adam"}

\* Optimizer::new
OptimizerNew(optimizer_type) ==
    [optimizer_type |-> optimizer_type,
     learning_rate  |-> LEARNING_RATE,
     beta1          |-> BETA1,
     beta2          |-> BETA2,
     epsilon        |-> EPSILON,
     moment1        |-> None,
     moment2        |-> None,
     timestep       |-> 0]

\* outcome of a step: the panic flag, the parameter matrix and the optimizer as
\* they are when the call returns or unwinds
StepResult(panicked, params, opt) ==
    [panicked |-> panicked, params |-> params, opt |-> opt]

sgd_step_flattened(self, params, grads) ==
    IF Shape(params) # Shape(grads) THEN StepResult(TRUE, params, self)
    ELSE StepResult(FALSE,
            <<[k \in 1..(Rows(params) * Cols(params)) |->
                params[((k - 1) \div Cols(params)) + 1][((k - 1) % Cols(params)) + 1]
                  - self.learning_rate
                      * grads[((k - 1) \div Cols(params)) + 1][((k - 1) % Cols(params)) + 1]]>>,
            self)

sgd_step_added(self, params, grads) ==
    IF Shape(params) # Shape(grads)
    THEN StepResult(TRUE, params, self)
    ELSE LET Upd(param, grad) == param + self.learning_rate * grad
         IN  StepResult(FALSE, ZipMutWith(params, grads, Upd), self)

\* Optimizer::sgd_step
sgd_step(self, params, grads) ==
    IF Shape(params) # Shape(grads)
    THEN StepResult(TRUE, params, self)
    ELSE LET Upd(param, grad) == param - self.learning_rate * grad
         IN  StepResult(FALSE, ZipMutWith(params, grads, Upd), self)

\* the denominator the closure of the last zip_mut_with of adam_step computes:
\* (bias_corrected_m2.mapv(f64::sqrt) + epsilon).iter().fold(0.0, +)
AdamDenominator(self, bias_corrected_m2) ==
    LET Root(m2) == Sqrt(m2) * 100000 + self.epsilon
    IN  SumAll(Mapv(bias_corrected_m2, Root))

\* Optimizer::adam_step after its shape assertion
adam_update(self, params, grads) ==
    LET init == IF self.moment1 = None
                THEN [self EXCEPT !.moment1 = Some(Zeros(Shape(params))),
                                  !.moment2 = Some(Zeros(Shape(params)))]
                ELSE self
        ticked == [init EXCEPT !.timestep = @ + 1]
        t  == ticked.timestep
        M1(m1, grad) == (self.beta1 * m1 + (1000 - self.beta1) * grad) \div 1000
        M2(m2, grad) == (self.beta2 * m2 + (1000 - self.beta2) * grad * grad) \div 1000
    IN  IF ~CanZip(Unwrap(ticked.moment1), grads)
        THEN StepResult(TRUE, params, ticked)
        ELSE
        LET moment1 == ZipMutWith(Unwrap(ticked.moment1), grads, M1)
            moment2 == ZipMutWith(Unwrap(ticked.moment2), grads, M2)
            updated == [ticked EXCEPT !.moment1 = Some(moment1),
                                      !.moment2 = Some(moment2)]
            C1(m1) == (m1 * 1000000) \div (1000000 - Powf(self.beta1, t))
            C2(m2) == (m2 * 1000000) \div (1000000 - Powf(self.beta2, t))
            bias_corrected_m1 == Mapv(moment1, C1)
            bias_corrected_m2 == Mapv(moment2, C2)
            denom == AdamDenominator(self, bias_corrected_m2)
            Upd(param, m1) ==
                param - DivDigits(self.learning_rate * m1 * 1000000, denom)
        IN  IF ~CanZip(params, bias_corrected_m1)
            THEN StepResult(TRUE, params, updated)
            ELSE StepResult(FALSE, ZipMutWith(params, bias_corrected_m1, Upd), updated)

adam_step_unchecked(self, params, grads) == adam_update(self, params, grads)

\* Optimizer::adam_step
adam_step(self, params, grads) ==
    IF Shape(params) # Shape(grads)
    THEN StepResult(TRUE, params, self)
    ELSE adam_update(self, params, grads)

\* Optimizer::step
step(self, params, grads) ==
    IF self.optimizer_type = "SGD"
    THEN sgd_step(self, params, grads)
    ELSE adam_step(self, params, grads)

-----------------------------------------------------------------------------
(* embedding/embeddings.rs *)

PAD_TOKEN == "[PAD]"

UNK_TOKEN == "[UNK]"

\* f64::sin and f64::cos of an angle in thousandths of a radian, in
\* thousandths: whole radians by table, small angles by their Taylor terms
Sin(angle) ==
    CASE angle = 0    -> 0
      [] angle = 1000 -> 841
      [] angle = 2000 -> 909
      [] angle = 3000 -> 141
      [] angle = 4000 -> -757
      [] angle > 0 /\ angle <= 100 -> angle - (angle * angle * angle) \div 6000000

Cos(angle) ==
    CASE angle = 0    -> 1000
      [] angle = 1000 -> 540
      [] angle = 2000 -> -416
      [] angle = 3000 -> -990
      [] angle = 4000 -> -654
      [] angle > 0 /\ angle <= 100 -> 1000 - (angle * angle) \div 2000

\* 10000f64.powf(num / den), for the exponents 0, 1/2 and 1
PowTenThousand(num, den) ==
    CASE num = 0       -> 1
      [] 2 * num = den -> 100
      [] num = den     -> 10000

\* Embeddings::generate_positional_encodings, entries in millionths,
\* pos and i counted from 0 as in the source
PositionalEncoding(model_dim, pos, i) ==
    LET angle == (pos * 1000) \div PowTenThousand(2 * (i \div 2), model_dim)
    IN  1000 * (IF i % 2 = 0 THEN Sin(angle) ELSE Cos(angle))

generate_positional_encodings(self, seq_len) ==
    [p \in 1..seq_len |-> [c \in 1..self.model_dim |->
        PositionalEncoding(self.model_dim, p - 1, c - 1)]]

\* the literal the fallback branch of Embeddings::encode looks up
EncodeUnknownLiteral == "<UNK>"

\* the row (counted from 0) Embeddings::encode copies for a token index
EncodeRow(self, token_idx) ==
    IF token_idx < Rows(self.token_embedding_matrix)
    THEN token_idx
    ELSE IF EncodeUnknownLiteral \in DOMAIN self.vocab
         THEN self.vocab[EncodeUnknownLiteral]
         ELSE 0

\* Embeddings::encode: panics when the fallback row does not exist
encode(self, tokenized_input) ==
    LET seq_len == Len(tokenized_input)
        rows == [idx \in 1..seq_len |-> EncodeRow(self, tokenized_input[idx])]
        pe == generate_positional_encodings(self, seq_len)
    IN  IF \E idx \in 1..seq_len : rows[idx] >= Rows(self.token_embedding_matrix)
        THEN [panicked |-> TRUE, value |-> <<>>]
        ELSE [panicked |-> FALSE,
              value |-> [idx \in 1..seq_len |-> [c \in 1..self.model_dim |->
                  self.token_embedding_matrix[rows[idx] + 1][c] + pe[idx][c]]]]

\* Array2::random((rows, cols), Uniform::new(-0.1, 0.1)): one draw of the
\* generator per seed, every entry within the range and every row different
RandomMatrix(rows, cols, seed) ==
    [i \in 1..rows |-> [j \in 1..cols |->
        (((7 * i + 3 * j + seed) % 19) - 9) * 10000]]

\* Embeddings::new
EmbeddingsNew(vocab, model_dim, seed) ==
    [token_embedding_matrix |-> RandomMatrix(Cardinality(DOMAIN vocab), model_dim, seed),
     vocab |-> vocab,
     model_dim |-> model_dim]

-----------------------------------------------------------------------------
(* The optimizer driven by a caller that owns one parameter matrix per shape *)

MaxSteps == 2

Shapes == {<<1, 1>>, <<1, 2>>, <<2, 2>>}

GradVals == {-100, 200}

\* params and grads of test_sgd / test_adam
TestParams == <<<<1000000, 2000000>>, <<3000000, 4000000>>>>

TestGrads == <<<<100, 200>>, <<300, 400>>>>

InitialMatrix(shape) ==
    IF shape = <<2, 2>> THEN TestParams
    ELSE [i \in 1..shape[1] |-> [j \in 1..shape[2] |-> 500000 * j]]

\* gradient arguments tried for a parameter matrix of shape ps
GradsFor(ps, gs) ==
    IF ps = gs
    THEN MatricesOver(gs, GradVals) \cup {Zeros(gs)}
            \cup (IF gs = <<2, 2>> THEN {TestGrads} ELSE {})
    ELSE {[i \in 1..gs[1] |-> [j \in 1..gs[2] |-> 200]]}

NoCall ==
    [kind |-> "none", key |-> <<1, 1>>, grads |-> Zeros(<<1, 1>>),
     pre_params |-> Zeros(<<1, 1>>), pre_opt |-> OptimizerNew("SGD"),
     panicked |-> FALSE]

-----------------------------------------------------------------------------
(* feed_forward/feed_forward_impl.rs, encoder/encoder_layer.rs,
   classification/classification_head.rs, transformer/transformer.rs *)

\* FeedForwardNetwork::new
FeedForwardNetworkNew(input_dim, hidden_dim, seed) ==
    [w1 |-> RandomMatrix(input_dim, hidden_dim, seed),
     b1 |-> Zeros(<<1, hidden_dim>>),
     w2 |-> RandomMatrix(hidden_dim, input_dim, seed + 1),
     b2 |-> Zeros(<<1, input_dim>>),
     hidden_dim |-> hidden_dim,
     input_dim |-> input_dim]

\* EncoderLayer::new
EncoderLayerNew(d_model, num_heads, d_ff, epsilon, seed) ==
    [feed_forward |-> FeedForwardNetworkNew(d_model, d_ff, seed),
     epsilon |-> epsilon]

\* ClassificationHead::new
ClassificationHeadNew(d_model, num_classes, seed) ==
    [weights |-> RandomMatrix(d_model, num_classes, seed),
     biases |-> Zeros(<<1, num_classes>>)]

\* Transformer::new(config, vocab): the encoder stack and the head as in
\* transformer.rs, with the Embeddings the two-argument constructor used by
\* main.rs and trainer.rs takes the vocabulary for
TransformerNew(config, vocab, seed) ==
    [encoder_layers |->
        [l \in 1..config.num_layers |->
            EncoderLayerNew(config.d_model, config.num_heads, config.ff_dim,
                            config.epsilon, seed + l)],
     classification_head |-> ClassificationHeadNew(config.d_model, config.num_classes, seed),
     embeddings |-> EmbeddingsNew(vocab, config.d_model, seed + 2),
     config |-> config]

\* a &mut f64 into the model: the owning part, the encoder layer (0 outside
\* the encoder stack), the matrix field, and the entry
Ref(part, layer, field, i, j) ==
    [part |-> part, layer |-> layer, field |-> field, i |-> i, j |-> j]

\* Array2::iter_mut: the entries in row-major order
IterMut(part, layer, field, m) ==
    [k \in 1..(Rows(m) * Cols(m)) |->
        Ref(part, layer, field, ((k - 1) \div Cols(m)) + 1, ((k - 1) % Cols(m)) + 1)]

\* FeedForwardNetwork::parameters_mut, called by EncoderLayer::parameters_mut
FeedForwardNetwork_parameters_mut(self, layer) ==
    IterMut("encoder", layer, "w1", self.w1) \o IterMut("encoder", layer, "b1", self.b1)
        \o IterMut("encoder", layer, "w2", self.w2) \o IterMut("encoder", layer, "b2", self.b2)

\* EncoderLayer::parameters_mut
EncoderLayer_parameters_mut(self, layer) ==
    FeedForwardNetwork_parameters_mut(self.feed_forward, layer)

ClassificationHead_parameters_mut_weights_only(self) ==
    IterMut("head", 0, "weights", self.weights)

\* ClassificationHead::parameters_mut
ClassificationHead_parameters_mut(self) ==
    IterMut("head", 0, "weights", self.weights) \o IterMut("head", 0, "biases", self.biases)

\* Embeddings::parameters_mut
Embeddings_parameters_mut(self) ==
    IterMut("embeddings", 0, "token_embedding_matrix", self.token_embedding_matrix)

RECURSIVE EncoderStack_parameters_mut(_, _)
EncoderStack_parameters_mut(layers, l) ==
    IF l > Len(layers) THEN <<>>
    ELSE EncoderLayer_parameters_mut(layers[l], l) \o EncoderStack_parameters_mut(layers, l + 1)

\* Transformer::parameters_mut
Transformer_parameters_mut(self) ==
    EncoderStack_parameters_mut(self.encoder_layers, 1)
        \o ClassificationHead_parameters_mut(self.classification_head)
        \o Embeddings_parameters_mut(self.embeddings)

\* *param for a reference into the model
Deref(self, ref) ==
    CASE ref.part = "encoder" ->
            self.encoder_layers[ref.layer].feed_forward[ref.field][ref.i][ref.j]
      [] ref.part = "head" -> self.classification_head[ref.field][ref.i][ref.j]
      [] ref.part = "embeddings" -> self.embeddings[ref.field][ref.i][ref.j]

\* *param = value
Assign(self, ref, value) ==
    CASE ref.part = "encoder" ->
            [self EXCEPT !.encoder_layers[ref.layer].feed_forward[ref.field][ref.i][ref.j] = value]
      [] ref.part = "head" ->
            [self EXCEPT !.classification_head[ref.field][ref.i][ref.j] = value]
      [] ref.part = "embeddings" ->
            [self EXCEPT !.embeddings[ref.field][ref.i][ref.j] = value]

-----------------------------------------------------------------------------
(* f64 results that may be undefined *)

Finite(v) == [class |-> "finite", v |-> v]

NaN == [class |-> "nan", v |-> 0]

Infinite(sign) == [class |-> "inf", v |-> sign]

\* x / n for an f64 x and a count n converted with `as f64`
FDiv(x, n) ==
    IF x.class # "finite" THEN x
    ELSE IF n # 0 THEN Finite(x.v \div n)
    ELSE IF x.v = 0 THEN NaN
    ELSE Infinite(IF x.v > 0 THEN 1 ELSE -1)

\* x + y
FAdd(x, y) ==
    IF x.class = "finite" /\ y.class = "finite" THEN Finite(x.v + y.v)
    ELSE IF x.class = "nan" \/ y.class = "nan" THEN NaN
    ELSE IF x.class = "inf" /\ y.class = "inf" /\ x.v # y.v THEN NaN
    ELSE IF x.class = "inf" THEN x ELSE y

\* x * c for a finite constant c
FScale(x, c) == IF x.class = "finite" THEN Finite(x.v * c) ELSE x

-----------------------------------------------------------------------------
(* cross_entropy/loss.rs *)

\* f64::exp of a whole number <= 0 given in thousandths, in thousandths
Exp(x) ==
    CASE x = 0     -> 1000
      [] x = -1000 -> 368
      [] x = -2000 -> 135
      [] x = -3000 -> 50
      [] x = -4000 -> 18

\* f64::ln of a probability in thousandths, in thousandths: halve the
\* exponent range by sqrt(2), then the series of ln(1 - u)
RECURSIVE Ln(_)
Ln(p) ==
    CASE p >= 707 ->
            LET u == 1000 - p
            IN  -(u + (u * u) \div 2000 + (u * u * u) \div 3000000
                    + (((u * u) \div 1000) * ((u * u) \div 1000)) \div 4000)
      [] p > 0 /\ p < 707 -> Ln((p * 1414) \div 1000) - 347

RECURSIVE MaxSeq(_)
MaxSeq(row) ==
    IF Len(row) = 1 THEN row[1]
    ELSE LET m == MaxSeq(Tail(row)) IN IF row[1] > m THEN row[1] ELSE m

\* Loss::softmax
softmax(logits) ==
    [i \in 1..Rows(logits) |->
        LET row == logits[i]
            max_logit == MaxSeq(row)
            exp_sum == SumSeq([c \in 1..Len(row) |-> Exp(row[c] - max_logit)])
        IN  [c \in 1..Len(row) |-> (Exp(row[c] - max_logit) * 1000) \div exp_sum]]

\* the loss without the assertion on the number of labels
cross_entropy_loss_any_count(logits, labels) ==
    LET probabilities == softmax(logits)
    IN  IF \E i \in 1..Len(labels) : i > Rows(probabilities) \/ labels[i] >= Cols(probabilities)
        THEN [panicked |-> TRUE, value |-> NaN]
        ELSE LET total_loss ==
                    SumSeq([i \in 1..Len(labels) |-> -Ln(probabilities[i][labels[i] + 1])])
             IN  [panicked |-> FALSE, value |-> FDiv(Finite(total_loss), Len(labels))]

\* Loss::cross_entropy_loss; labels are class indices counted from 0
cross_entropy_loss(logits, labels) ==
    IF Rows(logits) # Len(labels)
    THEN [panicked |-> TRUE, value |-> NaN]
    ELSE LET probabilities == softmax(logits)
         IN  IF \E i \in 1..Len(labels) : labels[i] >= Cols(probabilities)
             THEN [panicked |-> TRUE, value |-> NaN]
             ELSE LET total_loss ==
                         SumSeq([i \in 1..Len(labels) |-> -Ln(probabilities[i][labels[i] + 1])])
                  IN  [panicked |-> FALSE, value |-> FDiv(Finite(total_loss), Len(labels))]

\* the gradients without the division by labels.len()
gradients_undivided(logits, labels) ==
    LET probabilities == softmax(logits)
    IN  IF \E i \in 1..Len(labels) : i > Rows(probabilities) \/ labels[i] >= Cols(probabilities)
        THEN [panicked |-> TRUE, value |-> <<>>]
        ELSE [panicked |-> FALSE,
              value |-> [i \in 1..Rows(probabilities) |-> [c \in 1..Cols(probabilities) |->
                  IF i <= Len(labels) /\ labels[i] + 1 = c
                  THEN probabilities[i][c] - 1000
                  ELSE probabilities[i][c]]]]

\* Loss::gradients; indexing gradients[(i, label)] panics outside the matrix,
\* and without labels every entry is divided by 0.0
gradients(logits, labels) ==
    LET probabilities == softmax(logits)
    IN  IF \E i \in 1..Len(labels) : i > Rows(probabilities) \/ labels[i] >= Cols(probabilities)
        THEN [panicked |-> TRUE, value |-> <<>>]
        ELSE [panicked |-> FALSE,
              value |-> [i \in 1..Rows(probabilities) |-> [c \in 1..Cols(probabilities) |->
                  LET g == IF i <= Len(labels) /\ labels[i] + 1 = c
                           THEN probabilities[i][c] - 1000
                           ELSE probabilities[i][c]
                  IN  IF Len(labels) = 0 THEN FDiv(Finite(g), 0)
                      ELSE g \div Len(labels)]]]

-----------------------------------------------------------------------------
(* tokenization/tokenizer.rs: texts are sequences of characters, tokens are
   strings *)

\* the characters of the texts: a lower-case letter, an upper-case letter, a
\* punctuation mark and a blank
Chars == {"a", "B", "!", " "}

\* char::to_lowercase
to_lowercase(c) == IF c = "B" THEN "b" ELSE c

\* char::is_alphanumeric
is_alphanumeric(c) == c \in {"a", "b", "B"}

\* char::is_whitespace
is_whitespace(c) == c = " "

\* str::split_whitespace from the k-th character on, cur being the token
\* read so far: the maximal runs without whitespace, none of them empty
RECURSIVE split_whitespace(_, _, _)
split_whitespace(chars, k, cur) ==
    IF k > Len(chars) THEN (IF cur = "" THEN <<>> ELSE <<cur>>)
    ELSE IF is_whitespace(chars[k])
    THEN (IF cur = "" THEN <<>> ELSE <<cur>>) \o split_whitespace(chars, k + 1, "")
    ELSE split_whitespace(chars, k + 1, cur \o chars[k])

\* Tokenizer::preprocess_text: lower-case, keep alphanumerics and whitespace,
\* split on whitespace
preprocess_text(text) ==
    LET lowered == [k \in 1..Len(text) |-> to_lowercase(text[k])]
        kept == SelectSeq(lowered, LAMBDA c : is_alphanumeric(c) \/ is_whitespace(c))
    IN  split_whitespace(kept, 1, "")

verify_vocab_pad_only(vocab) ==
    IF PAD_TOKEN \notin DOMAIN vocab THEN [panicked |-> TRUE, missing |-> PAD_TOKEN]
    ELSE [panicked |-> FALSE, missing |-> ""]

\* Tokenizer::verify_vocab: panics with the first of PAD_TOKEN, UNK_TOKEN that
\* is no key of the vocabulary
verify_vocab(vocab) ==
    IF PAD_TOKEN \notin DOMAIN vocab THEN [panicked |-> TRUE, missing |-> PAD_TOKEN]
    ELSE IF UNK_TOKEN \notin DOMAIN vocab THEN [panicked |-> TRUE, missing |-> UNK_TOKEN]
    ELSE [panicked |-> FALSE, missing |-> ""]

\* Tokenizer::new
TokenizerNew(vocab, max_seq_length) ==
    IF verify_vocab(vocab).panicked
    THEN [panicked |-> TRUE, missing |-> verify_vocab(vocab).missing, value |-> None]
    ELSE [panicked |-> FALSE, missing |-> "",
          value |-> Some([vocab |-> vocab, max_seq_length |-> max_seq_length])]

tokenize_unknown_as_pad(self, text) ==
    LET tokens == preprocess_text(text)
    IN  [k \in 1..Len(tokens) |->
            IF tokens[k] \in DOMAIN self.vocab THEN self.vocab[tokens[k]]
            ELSE self.vocab[PAD_TOKEN]]

\* Tokenizer::tokenize
tokenize(self, text) ==
    LET tokens == preprocess_text(text)
    IN  [k \in 1..Len(tokens) |->
            IF tokens[k] \in DOMAIN self.vocab THEN self.vocab[tokens[k]]
            ELSE self.vocab[UNK_TOKEN]]

\* the tokens of all texts of a dataset
RECURSIVE AllTokens(_)
AllTokens(dataset) ==
    IF dataset = <<>> THEN <<>>
    ELSE preprocess_text(Head(dataset)) \o AllTokens(Tail(dataset))

\* build_vocab, lines 35-43: the number of occurrences of every token
token_counts(dataset) ==
    LET tokens == AllTokens(dataset)
    IN  [t \in {tokens[k] : k \in 1..Len(tokens)} |->
            Cardinality({k \in 1..Len(tokens) : tokens[k] = t})]

\* build_vocab, lines 52-53: the HashMap hands out its entries in an order
\* of its own and the stable sort_by orders them by falling count, so every
\* order by falling count can come out
SortedOrders(counts) ==
    {o \in [1..Cardinality(DOMAIN counts) -> DOMAIN counts] :
        /\ \A a, b \in DOMAIN o : a # b => o[a] # o[b]
        /\ \A a, b \in DOMAIN o : a < b => counts[o[a]] >= counts[o[b]]}

\* a - b on usize: where b > a a build with overflow checks panics and one
\* without them wraps around to 2^64 - (b - a)
UsizeSub(a, b, overflow_checks) ==
    IF a >= b THEN [panicked |-> FALSE, wrapped |-> FALSE, value |-> a - b]
    ELSE IF overflow_checks THEN [panicked |-> TRUE, wrapped |-> FALSE, value |-> 0]
    ELSE [panicked |-> FALSE, wrapped |-> TRUE, value |-> b - a]

\* Iterator::take: a wrapped count is larger than every length
Take(seq, count) ==
    IF count.wrapped \/ count.value >= Len(seq) THEN seq
    ELSE SubSeq(seq, 1, count.value)

\* HashMap::insert: a key that is present gets the new value
Insert(vocab, key, value) ==
    [t \in DOMAIN vocab \cup {key} |-> IF t = key THEN value ELSE vocab[t]]

\* vocab.insert(token, index) for the tokens in turn, index counting up
RECURSIVE InsertAll(_, _, _)
InsertAll(vocab, tokens, index) ==
    IF tokens = <<>> THEN vocab
    ELSE InsertAll(Insert(vocab, Head(tokens), index), Tail(tokens), index + 1)

\* Tokenizer::build_vocab, for the order the sorted tokens came out in and
\* the build's overflow checks
build_vocab(dataset, special_tokens, max_vocab_size, order, overflow_checks) ==
    LET vocab == InsertAll([t \in {} |-> 0], special_tokens, 0)
        max == IF max_vocab_size = None THEN Len(order) ELSE Unwrap(max_vocab_size)
        index == Len(special_tokens)
        count == UsizeSub(max, index, overflow_checks)
    IN  IF count.panicked THEN [panicked |-> TRUE, value |-> None]
        ELSE [panicked |-> FALSE,
              value |-> Some(InsertAll(vocab, Take(order, count), index))]

-----------------------------------------------------------------------------
(* tokenization/tokenizer.rs, data_handler/data_loader.rs *)

BATCH_SIZE == 32

pad_sequence_no_truncate(self, sequence) ==
    IF Len(sequence) >= self.max_seq_length THEN sequence
    ELSE [k \in 1..self.max_seq_length |->
            IF k <= Len(sequence) THEN sequence[k] ELSE self.vocab[PAD_TOKEN]]

\* Tokenizer::pad_sequence: Vec::resize to max_seq_length with the PAD id
pad_sequence(self, sequence) ==
    [k \in 1..self.max_seq_length |->
        IF k <= Len(sequence) THEN sequence[k] ELSE self.vocab[PAD_TOKEN]]

\* Tokenizer::tokenize_and_pad_batch for one text
tokenize_and_pad(self, text) == pad_sequence(self, tokenize(self, text))

\* Result::Err of the loaders
LoadErr == [ok |-> FALSE, inputs |-> <<>>, labels |-> <<>>]

\* a record the loaders accept: its text field is present (a string in JSON)
\* and its label field is present and reads as an unsigned integer
\* (as_u64 in load_json, parse::<usize> in load_csv)
RecordOk(item) == item.text # None /\ item.label.kind = "u64"

\* the loop over the records in load_csv and load_json: the first record
\* that is not accepted ends the load with an Err; otherwise every record
\* gives one padded input and one label, in file order
load_records(tok, items) ==
    IF \E k \in 1..Len(items) : ~RecordOk(items[k]) THEN LoadErr
    ELSE [ok |-> TRUE,
          inputs |-> [k \in 1..Len(items) |-> tokenize_and_pad(tok, Unwrap(items[k].text))],
          labels |-> [k \in 1..Len(items) |-> items[k].label.value]]

\* DataLoader::load_csv: a file that cannot be opened or a row the csv
\* reader rejects is an Err
load_csv(tok, file) ==
    IF ~file.readable \/ ~file.syntax_ok THEN LoadErr
    ELSE load_records(tok, file.items)

\* DataLoader::load_json: a file that cannot be read or is no JSON is an
\* Err; a JSON value that is no array skips the loop and gives Ok of two
\* empty vectors
load_json(tok, file) ==
    IF ~file.readable \/ ~file.syntax_ok THEN LoadErr
    ELSE IF ~file.is_array THEN [ok |-> TRUE, inputs |-> <<>>, labels |-> <<>>]
    ELSE load_records(tok, file.items)

\* DataLoader::load_dataset: the parser is chosen by the extension
load_dataset(tok, file) ==
    CASE file.extension = "csv" -> load_csv(tok, file)
      [] file.extension = "json" -> load_json(tok, file)
      [] OTHER -> LoadErr

create_batches_exact(inputs, labels) ==
    LET n == IF Len(inputs) < Len(labels) THEN Len(inputs) \div BATCH_SIZE
             ELSE Len(labels) \div BATCH_SIZE
    IN  [k \in 1..n |->
            <<SubSeq(inputs, (k - 1) * BATCH_SIZE + 1, k * BATCH_SIZE),
              SubSeq(labels, (k - 1) * BATCH_SIZE + 1, k * BATCH_SIZE)>>]

\* slice::chunks(BATCH_SIZE): the k-th chunk of a sequence
Chunk(seq, k) ==
    SubSeq(seq, (k - 1) * BATCH_SIZE + 1,
           IF k * BATCH_SIZE < Len(seq) THEN k * BATCH_SIZE ELSE Len(seq))

NumChunks(seq) == (Len(seq) + BATCH_SIZE - 1) \div BATCH_SIZE

\* DataLoader::create_batches: the chunks of inputs zipped with those of labels
create_batches(inputs, labels) ==
    LET n == IF NumChunks(inputs) < NumChunks(labels)
             THEN NumChunks(inputs) ELSE NumChunks(labels)
    IN  [k \in 1..n |-> <<Chunk(inputs, k), Chunk(labels, k)>>]

-----------------------------------------------------------------------------
(* training/trainer.rs *)

\* Trainer::compute_correct_predictions: max_by keeps the last of equal maxima
PredictedLabel(logit) ==
    (CHOOSE c \in 1..Len(logit) :
        /\ \A d \in 1..Len(logit) : logit[d] <= logit[c]
        /\ \A d \in (c + 1)..Len(logit) : logit[d] < logit[c]) - 1

compute_correct_predictions(logits, labels) ==
    LET n == IF Rows(logits) < Len(labels) THEN Rows(logits) ELSE Len(labels)
    IN  Cardinality({i \in 1..n : PredictedLabel(logits[i]) = labels[i]})

\* gradients.iter(): the entries of the gradient matrix in row-major order
Flatten(m) ==
    [k \in 1..(Rows(m) * Cols(m)) |-> m[((k - 1) \div Cols(m)) + 1][((k - 1) % Cols(m)) + 1]]

\* the update with the gradient added instead of subtracted
RECURSIVE UpdateParameters_ascent(_, _, _, _)
UpdateParameters_ascent(model_, params, grads, k) ==
    IF k > Len(params) \/ k > Len(grads) THEN model_
    ELSE UpdateParameters_ascent(
            Assign(model_, params[k], Deref(model_, params[k]) + LEARNING_RATE * grads[k]),
            params, grads, k + 1)

\* for (param, grad) in params.iter_mut().zip(gradients.iter()) from the
\* k-th pair on: zip ends with the shorter of the two
RECURSIVE UpdateParameters(_, _, _, _)
UpdateParameters(model_, params, grads, k) ==
    IF k > Len(params) \/ k > Len(grads) THEN model_
    ELSE UpdateParameters(
            Assign(model_, params[k], Deref(model_, params[k]) - LEARNING_RATE * grads[k]),
            params, grads, k + 1)

-----------------------------------------------------------------------------
(* Bounds and inputs of the drivers *)

\* Embeddings::encode is driven with these token sequences and vocabularies

MaxSeqLen == 3

MaxTokenId == 4

\* vocabularies: the tokenizer's (test_data_loader, test_trainer of main.rs),
\* the one of test_embeddings, the two special tokens alone, and one whose
\* "<UNK>" id is not a row of the lookup matrix
Vocabs ==
    { (PAD_TOKEN :> 0) @@ (UNK_TOKEN :> 1) @@ ("hello" :> 2) @@ ("world" :> 3),
      ("hello" :> 0) @@ ("world" :> 1) @@ ("<UNK>" :> 2),
      (PAD_TOKEN :> 0) @@ (UNK_TOKEN :> 1),
      ("hello" :> 0) @@ ("<UNK>" :> 7) }

ModelDims == {2, 4}

Seeds == {0, 1}

RECURSIVE SeqsUpTo(_, _)
SeqsUpTo(S, n) ==
    IF n = 0 THEN {<<>>}
    ELSE LET shorter == SeqsUpTo(S, n - 1)
         IN  shorter \cup {Append(q, x) : q \in {r \in shorter : Len(r) = n - 1}, x \in S}

\* no function has been called
NoFnCall == [kind |-> "none"]

FnIdle == fn_call = NoFnCall

NoEncode == [kind |-> "none", input |-> <<>>, panicked |-> FALSE, value |-> <<>>]

EmbIdle ==
    /\ emb = EmbeddingsNew((PAD_TOKEN :> 0) @@ (UNK_TOKEN :> 1), 2, 0)
    /\ emb_call = NoEncode

\* Trainer::train is driven with these models, files and forward results
MaxEpochs == 2

MaxBatches == 2

NumClasses == 2

SpecialVocab == (PAD_TOKEN :> 0) @@ (UNK_TOKEN :> 1)

Configs ==
    { [num_layers |-> 1, d_model |-> 1, num_heads |-> 1, ff_dim |-> 1,
       num_classes |-> NumClasses, epsilon |-> 1],
      [num_layers |-> 2, d_model |-> 2, num_heads |-> 1, ff_dim |-> 1,
       num_classes |-> NumClasses, epsilon |-> 1] }

\* sample counts around the batch boundaries: none, one short batch, full
\* batches, full batches and one short batch
SampleCounts ==
    {0} \cup {(q - 1) * BATCH_SIZE + r : q \in 1..MaxBatches, r \in {1, BATCH_SIZE}}

LabelPatterns == {"zeros", "runs", "bad_last"}

\* the label of the k-th of n records: "runs" changes the label every third
\* record, "bad_last" ends with a label that is no class index
LabelOf(pattern, k, n) ==
    CASE pattern = "zeros" -> 0
      [] pattern = "runs" -> (k \div 3) % 2
      [] pattern = "bad_last" -> IF k = n THEN NumClasses ELSE 0

\* n records whose texts are in turn one unknown word and empty
Records(pattern, n) ==
    [k \in 1..n |->
        [text |-> Some(IF k % 2 = 1 THEN <<"a">> ELSE <<>>),
         label |-> [kind |-> "u64", value |-> LabelOf(pattern, k, n)]]]

\* a file of the given extension that holds these records
FileOf(extension, items) ==
    [extension |-> extension, readable |-> TRUE, syntax_ok |-> TRUE,
     is_array |-> TRUE, items |-> items]

DatasetFiles ==
    { FileOf("txt", <<>>),
      [FileOf("json", <<>>) EXCEPT !.readable = FALSE],
      [FileOf("csv", <<>>) EXCEPT !.syntax_ok = FALSE] }
    \cup { FileOf(IF pattern = "runs" THEN "csv" ELSE "json", Records(pattern, n)) :
           pattern \in LabelPatterns, n \in SampleCounts }

\* the logits the model returns for a batch: one row per input row and one
\* column per class; odd rows take the first row of a pair, even rows the other
LogitRowPairs ==
    { << <<1000, 0>>, <<0, 1000>> >>, << <<0, 0>>, <<0, 2000>> >> }

Forward(batch_array, pair) == [r \in 1..Rows(batch_array) |-> pair[2 - (r % 2)]]

NoBatch ==
    [kind |-> "none", labels |-> <<>>, logits |-> <<>>, gradients |-> <<>>,
     pre_model |-> <<>>, panicked |-> FALSE]

\* a trainer before train is called
TrainerFields(config, file, n_epochs) ==
    /\ model = TransformerNew(config, SpecialVocab, 0)
    /\ model0 = model
    /\ epochs = n_epochs
    /\ tokenizer = [vocab |-> SpecialVocab, max_seq_length |-> 2]
    /\ data_file = file
    /\ batches = <<>>
    /\ epoch = 0
    /\ batch_idx = 0
    /\ epoch_loss = Finite(0)
    /\ correct_predictions = 0
    /\ total_samples = 0
    /\ reports = <<>>
    /\ step_log = <<>>
    /\ batch_call = NoBatch

\* Trainer::new, before train is called
TrainerNew(config, file, n_epochs) ==
    /\ TrainerFields(config, file, n_epochs)
    /\ pc = "new"

\* a run without a trainer: train is never called
TrainIdle ==
    /\ TrainerFields(CHOOSE c \in Configs : c.num_layers = 1,
                     CHOOSE f \in DatasetFiles : f.extension = "txt", 0)
    /\ pc = "unused"

\* the caller's matrices before any call of Optimizer::step
OptFields ==
    /\ mats = [s \in Shapes |-> InitialMatrix(s)]
    /\ opt_call = NoCall
    /\ completed = 0

\* a run in which Optimizer::step is never called
OptIdle ==
    /\ OptFields
    /\ opt_status = "unused"

OptInit ==
    /\ \E ty \in OptimizerType : optimizer = OptimizerNew(ty)
    /\ OptFields
    /\ opt_status = "ready"
    /\ FnIdle
    /\ EmbIdle
    /\ TrainIdle

\* optimizer.step(&mut mats[ps].view_mut(), &grads.view())
OptStep(ps, grads) ==
    /\ opt_status = "ready"
    /\ completed < MaxSteps
    /\ LET r == step(optimizer, mats[ps], grads)
       IN  /\ optimizer' = r.opt
           /\ mats' = [mats EXCEPT ![ps] = r.params]
           /\ completed' = IF r.panicked THEN completed ELSE completed + 1
           /\ opt_status' = IF r.panicked THEN "panicked" ELSE "ready"
           /\ opt_call' = [kind |-> "step", key |-> ps, grads |-> grads,
                           pre_params |-> mats[ps], pre_opt |-> optimizer,
                           panicked |-> r.panicked]
    /\ UNCHANGED <<embVars, trainVars, fnVars>>

OptNext == \E ps \in Shapes, gs \in Shapes : \E grads \in GradsFor(ps, gs) : OptStep(ps, grads)

OptSpec == OptInit /\ [][OptNext]_vars

-----------------------------------------------------------------------------
(* Embeddings::encode driven with token sequences *)

EmbInit ==
    /\ \E vocab \in Vocabs, model_dim \in ModelDims, seed \in Seeds :
          emb = EmbeddingsNew(vocab, model_dim, seed)
    /\ emb_call = NoEncode
    /\ optimizer = OptimizerNew("SGD")
    /\ OptIdle
    /\ TrainIdle
    /\ FnIdle

\* emb.encode(&tokenized_input); encode takes &self and leaves the struct as
\* it is, so one call per run covers every call
Encode(tokenized_input) ==
    /\ emb_call.kind = "none"
    /\ LET r == encode(emb, tokenized_input)
       IN  emb_call' = [kind |-> "encode", input |-> tokenized_input,
                        panicked |-> r.panicked, value |-> r.value]
    /\ UNCHANGED <<emb, optVars, trainVars, fnVars>>

EmbNext == \E tokenized_input \in SeqsUpTo(0..MaxTokenId, MaxSeqLen) : Encode(tokenized_input)

EmbSpec == EmbInit /\ [][EmbNext]_vars


-----------------------------------------------------------------------------
(* Trainer::train *)

TrainInit ==
    /\ \E ty \in OptimizerType : optimizer = OptimizerNew(ty)
    /\ \E config \in Configs, file \in DatasetFiles, n_epochs \in 0..MaxEpochs :
          TrainerNew(config, file, n_epochs)
    /\ OptIdle
    /\ EmbIdle
    /\ FnIdle

\* lines 34-35: load_dataset(dataset_path).unwrap(), create_batches
TrainLoad ==
    /\ pc = "new"
    /\ LET loaded == load_dataset(tokenizer, data_file)
       IN  IF loaded.ok
           THEN /\ batches' = create_batches(loaded.inputs, loaded.labels)
                /\ pc' = "epoch_head"
           ELSE /\ pc' = "panicked"
                /\ UNCHANGED batches
    /\ UNCHANGED <<model, model0, epochs, tokenizer, data_file, epoch, batch_idx,
                   epoch_loss, correct_predictions, total_samples, reports,
                   step_log, batch_call, optVars, embVars, fnVars>>

\* an epoch head that leaves the batch index where the last epoch ended
EpochBegin_keep_index ==
    /\ pc = "epoch_head"
    /\ epoch < epochs
    /\ epoch_loss' = Finite(0)
    /\ correct_predictions' = 0
    /\ total_samples' = 0
    /\ pc' = "batch_loop"
    /\ UNCHANGED <<model, model0, epochs, tokenizer, data_file, batches, epoch,
                   batch_idx, reports, step_log, batch_call, optVars,
                   embVars, fnVars>>

\* an epoch head that carries the counts of the last epoch on
EpochBegin_keep_counts ==
    /\ pc = "epoch_head"
    /\ epoch < epochs
    /\ epoch_loss' = Finite(0)
    /\ batch_idx' = 0
    /\ pc' = "batch_loop"
    /\ UNCHANGED <<model, model0, epochs, tokenizer, data_file, batches, epoch,
                   correct_predictions, total_samples, reports, step_log,
                   batch_call, optVars, embVars, fnVars>>

\* lines 37-42: the next epoch starts with fresh accumulators
EpochBegin ==
    /\ pc = "epoch_head"
    /\ epoch < epochs
    /\ epoch_loss' = Finite(0)
    /\ correct_predictions' = 0
    /\ total_samples' = 0
    /\ batch_idx' = 0
    /\ pc' = "batch_loop"
    /\ UNCHANGED <<model, model0, epochs, tokenizer, data_file, batches, epoch,
                   reports, step_log, batch_call, optVars, embVars, fnVars>>

\* lines 44-72: one pass of the inner loop over the next batch
BatchStep(pair) ==
    /\ pc = "batch_loop"
    /\ batch_idx < Len(batches)
    /\ LET batch_inputs == batches[batch_idx + 1][1]
           batch_labels == batches[batch_idx + 1][2]
           batch_array == [r \in 1..Len(batch_inputs) |->
                              [c \in 1..Len(batch_inputs[1]) |-> 1000 * batch_inputs[r][c]]]
           logits == Forward(batch_array, pair)
           loss == cross_entropy_loss(logits, batch_labels)
           grads == gradients(logits, batch_labels)
       IN  IF loss.panicked \/ grads.panicked
           THEN /\ pc' = "panicked"
                /\ batch_call' = [kind |-> "batch", labels |-> batch_labels,
                                  logits |-> logits, gradients |-> <<>>,
                                  pre_model |-> model, panicked |-> TRUE]
                /\ UNCHANGED <<model, epoch_loss, correct_predictions, total_samples,
                               batch_idx, step_log>>
           ELSE /\ model' = UpdateParameters(model, Transformer_parameters_mut(model),
                                             Flatten(grads.value), 1)
                /\ epoch_loss' = FAdd(epoch_loss, loss.value)
                /\ correct_predictions' =
                      correct_predictions + compute_correct_predictions(logits, batch_labels)
                /\ total_samples' = total_samples + Len(batch_labels)
                /\ batch_idx' = batch_idx + 1
                /\ step_log' = Append(step_log, <<epoch, batch_idx>>)
                /\ batch_call' = [kind |-> "batch", labels |-> batch_labels,
                                  logits |-> logits, gradients |-> grads.value,
                                  pre_model |-> model, panicked |-> FALSE]
                /\ pc' = pc
    /\ UNCHANGED <<model0, epochs, tokenizer, data_file, batches, epoch, reports,
                   optVars, embVars, fnVars>>

\* lines 74-81: the epoch's accuracy and mean loss are computed and printed
EpochEnd ==
    /\ pc = "batch_loop"
    /\ batch_idx = Len(batches)
    /\ LET epoch_accuracy == FDiv(Finite(1000 * correct_predictions), total_samples)
       IN  reports' = Append(reports,
                             [epoch |-> epoch + 1,
                              loss |-> FDiv(epoch_loss, Len(batches)),
                              accuracy |-> FScale(epoch_accuracy, 100)])
    /\ epoch' = epoch + 1
    /\ pc' = "epoch_head"
    /\ UNCHANGED <<model, model0, epochs, tokenizer, data_file, batches, batch_idx,
                   epoch_loss, correct_predictions, total_samples, step_log,
                   batch_call, optVars, embVars, fnVars>>

\* a return that may leave the last epoch out
TrainReturn_before_last ==
    /\ pc = "epoch_head"
    /\ epoch + 1 >= epochs
    /\ pc' = "done"
    /\ UNCHANGED <<model, model0, epochs, tokenizer, data_file, batches, epoch,
                   batch_idx, epoch_loss, correct_predictions, total_samples,
                   reports, step_log, batch_call, optVars, embVars, fnVars>>

\* line 82: the outer loop is exhausted and train returns ()
TrainReturn ==
    /\ pc = "epoch_head"
    /\ epoch = epochs
    /\ pc' = "done"
    /\ UNCHANGED <<model, model0, epochs, tokenizer, data_file, batches, epoch,
                   batch_idx, epoch_loss, correct_predictions, total_samples,
                   reports, step_log, batch_call, optVars, embVars, fnVars>>

TrainNext ==
    \/ TrainLoad
    \/ EpochBegin
    \/ \E pair \in LogitRowPairs : BatchStep(pair)
    \/ EpochEnd
    \/ TrainReturn

TrainSpec == TrainInit /\ [][TrainNext]_vars

-----------------------------------------------------------------------------
(* Properties of the optimizer *)

AdamCall == opt_call.kind = "step" /\ opt_call.pre_opt.optimizer_type = "Adam"

SgdCall == opt_call.kind = "step" /\ opt_call.pre_opt.optimizer_type = "SGD"

Mismatched == Shape(opt_call.pre_params) # Shape(opt_call.grads)

\* bias-corrected moments of the optimizer as the last step left them
M1Hat(i, j) ==
    (Unwrap(optimizer.moment1)[i][j] * 1000000)
        \div (1000000 - Powf(optimizer.beta1, optimizer.timestep))

M2Hat(i, j) ==
    (Unwrap(optimizer.moment2)[i][j] * 1000000)
        \div (1000000 - Powf(optimizer.beta2, optimizer.timestep))

\* C6: for an Adam optimizer, after any sequence of step calls, timestep is
\* the number of completed steps, both moment matrices are absent exactly
\* when no step has completed, they start from zero on the first step, and
\* they have the shape of the parameter matrix of the step.
C6_AdamStateTracksSteps ==
    optimizer.optimizer_type = "Adam" =>
        /\ optimizer.timestep = completed
        /\ (optimizer.moment1 = None) <=> (completed = 0)
        /\ (optimizer.moment2 = None) <=> (completed = 0)
        /\ (opt_call.kind = "step" /\ ~opt_call.panicked) =>
                /\ Shape(Unwrap(optimizer.moment1)) = Shape(mats[opt_call.key])
                /\ Shape(Unwrap(optimizer.moment2)) = Shape(mats[opt_call.key])
        /\ completed = 1 /\ opt_status = "ready" =>
                \A i \in 1..Rows(opt_call.grads), j \in 1..Cols(opt_call.grads) :
                    /\ Unwrap(optimizer.moment1)[i][j]
                          = ((1000 - BETA1) * opt_call.grads[i][j]) \div 1000
                    /\ Unwrap(optimizer.moment2)[i][j]
                          = ((1000 - BETA2) * opt_call.grads[i][j]
                                * opt_call.grads[i][j]) \div 1000

\* C7: a completed Adam step decreases param[i][j] by
\* learning_rate * m1_hat[i][j] / (sqrt(m2_hat[i][j]) + epsilon), which
\* involves position (i, j) alone.
C7_AdamUpdateElementwise ==
    (AdamCall /\ ~opt_call.panicked) =>
        \A i \in 1..Rows(opt_call.pre_params), j \in 1..Cols(opt_call.pre_params) :
            mats[opt_call.key][i][j]
              = opt_call.pre_params[i][j]
                  - DivDigits(LEARNING_RATE * M1Hat(i, j) * 1000000,
                              Sqrt(M2Hat(i, j)) * 100000 + EPSILON)

\* C8: a completed SGD step sets every param[i][j] to
\* param[i][j] - learning_rate * grad[i][j] and leaves the optimizer's
\* moment estimates and timestep as they were.
C8_SgdStepElementwise ==
    (SgdCall /\ ~opt_call.panicked) =>
        /\ Shape(mats[opt_call.key]) = Shape(opt_call.pre_params)
        /\ \A i \in 1..Rows(opt_call.pre_params), j \in 1..Cols(opt_call.pre_params) :
              mats[opt_call.key][i][j]
                = opt_call.pre_params[i][j] - LEARNING_RATE * opt_call.grads[i][j]
        /\ optimizer = opt_call.pre_opt
        /\ optimizer.moment1 = None /\ optimizer.moment2 = None
        /\ optimizer.timestep = 0

\* test_sgd: [[1,2],[3,4]] with grads [[0.1,0.2],[0.3,0.4]] becomes
\* [[0.9999,1.9998],[2.9997,3.9996]]
C8_Witness ==
    /\ SgdCall /\ ~opt_call.panicked
    /\ opt_call.pre_params = TestParams
    /\ opt_call.grads = TestGrads
    /\ mats[<<2, 2>>] = <<<<999900, 1999800>>, <<2999700, 3999600>>>>

\* C9: a step whose parameter and gradient shapes differ panics, for SGD and
\* for Adam, with the parameters and the optimizer state untouched.
C9_ShapeMismatchPanics ==
    (opt_call.kind = "step" /\ Mismatched) =>
        /\ opt_call.panicked
        /\ opt_status = "panicked"
        /\ mats[opt_call.key] = opt_call.pre_params
        /\ optimizer = opt_call.pre_opt

\* a mismatched Adam step after a completed one, so that the moments exist
C9_Witness ==
    /\ AdamCall /\ Mismatched
    /\ opt_call.pre_opt.timestep = 1
    /\ opt_call.pre_opt.moment1 # None
    /\ opt_status = "panicked"

-----------------------------------------------------------------------------
(* Properties of the embeddings *)

\* the row the claim names for a token id: the id itself when it is a row of
\* the lookup matrix, the row of UNK_TOKEN otherwise
ClaimedRow(token_idx) ==
    IF token_idx < Rows(emb.token_embedding_matrix) THEN token_idx
    ELSE emb.vocab[UNK_TOKEN]

\* C5: for a vocabulary that holds UNK_TOKEN, encode uses for every token id
\* that is a row index the row with that index, and for every other token id
\* the row of UNK_TOKEN, never another token's row.
C5_EncodeFallsBackToUnkRow ==
    (emb_call.kind = "encode" /\ UNK_TOKEN \in DOMAIN emb.vocab) =>
        /\ ~emb_call.panicked
        /\ \A idx \in 1..Len(emb_call.input), c \in 1..emb.model_dim :
              emb_call.value[idx][c]
                = emb.token_embedding_matrix[ClaimedRow(emb_call.input[idx]) + 1][c]
                    + PositionalEncoding(emb.model_dim, idx - 1, c - 1)

-----------------------------------------------------------------------------
(* Properties of the trainer and of the parameter view *)

BatchDone == batch_call.kind = "batch" /\ ~batch_call.panicked

Loaded == load_dataset(tokenizer, data_file)

\* how train has ended: it returns () or it panics; its signature has no
\* error value to return
TrainOutcome ==
    CASE pc = "done" -> "unit"
      [] pc = "panicked" -> "panic"
      [] OTHER -> "running"

\* C1: in every batch step the parameter view and the gradient sequence align
\* 1:1, so that every trainable scalar is decreased by LEARNING_RATE times
\* its gradient entry in that step.
C1_EveryScalarUpdated ==
    BatchDone =>
        LET params == Transformer_parameters_mut(batch_call.pre_model)
            grads == Flatten(batch_call.gradients)
        IN  /\ Len(params) = Len(grads)
            /\ \A k \in 1..Len(params) :
                  Deref(model, params[k])
                    = Deref(batch_call.pre_model, params[k]) - LEARNING_RATE * grads[k]

\* C2: epochs run one after the other and, within an epoch, the batches are
\* taken in the order create_batches produced them, each exactly once: the
\* k-th completed batch step is batch (k-1) mod n of epoch (k-1) div n, a
\* new epoch starts only after all n batches of the one before, and train
\* returns after epochs * n steps.
C2_BatchesInOrder ==
    LET n == Len(batches)
        produced == create_batches(Loaded.inputs, Loaded.labels)
    IN  /\ \A k \in 1..Len(step_log) :
              step_log[k] = <<(k - 1) \div n, (k - 1) % n>>
        /\ pc = "batch_loop" => batch_idx <= n /\ Len(step_log) = epoch * n + batch_idx
        /\ pc = "epoch_head" => Len(step_log) = epoch * n
        /\ pc = "done" => Len(step_log) = epochs * n
        /\ (BatchDone /\ step_log # <<>>) =>
              batch_call.labels = produced[step_log[Len(step_log)][2] + 1][2]

\* two epochs over two batches, finished
C2_Witness ==
    /\ pc = "done"
    /\ epochs = 2
    /\ Len(batches) = 2
    /\ step_log = << <<0, 0>>, <<0, 1>>, <<1, 0>>, <<1, 1>> >>

\* C3: when loading the dataset fails, train reports the failure to its
\* caller as a recoverable error value and no model parameter has changed.
C3_LoadFailureIsErrorValue ==
    (pc # "new" /\ ~Loaded.ok) =>
        /\ TrainOutcome = "err"
        /\ model = model0

\* C4: on a dataset with zero samples every epoch's reported loss and
\* accuracy are defined values, never the result of a division by a zero
\* batch count or a zero sample count.
C4_EmptyDatasetDefinedMetrics ==
    (Loaded.ok /\ Len(Loaded.labels) = 0) =>
        \A k \in 1..Len(reports) :
            /\ reports[k].loss.class = "finite"
            /\ reports[k].accuracy.class = "finite"

\* every entry of every parameter matrix of the model
MatrixScalars(part, layer, field, m) ==
    {Ref(part, layer, field, i, j) : i \in 1..Rows(m), j \in 1..Cols(m)}

TrainableScalars(self) ==
    UNION {MatrixScalars("encoder", l, f, self.encoder_layers[l].feed_forward[f]) :
              l \in 1..Len(self.encoder_layers), f \in {"w1", "b1", "w2", "b2"}}
      \cup MatrixScalars("head", 0, "weights", self.classification_head.weights)
      \cup MatrixScalars("head", 0, "biases", self.classification_head.biases)
      \cup MatrixScalars("embeddings", 0, "token_embedding_matrix",
                         self.embeddings.token_embedding_matrix)

\* place of a reference in the claimed order: the encoder layers by index,
\* then the head's weights, the head's biases, the embeddings
OrderRank(self, ref) ==
    CASE ref.part = "encoder" -> ref.layer
      [] ref.part = "head" /\ ref.field = "weights" -> Len(self.encoder_layers) + 1
      [] ref.part = "head" /\ ref.field = "biases" -> Len(self.encoder_layers) + 2
      [] ref.part = "embeddings" -> Len(self.encoder_layers) + 3

-----------------------------------------------------------------------------
(* Parameter matrices under training steps and optimizer steps *)

\* runs of the trainer and runs of the optimizer's caller
ParamInit == OptInit \/ TrainInit

ParamNext == OptNext \/ TrainNext

ParamSpec == ParamInit /\ [][ParamNext]_vars

\* m is a rows x cols matrix
HasShape(m, shape) ==
    /\ Len(m) = shape[1]
    /\ \A i \in 1..Len(m) : Len(m[i]) = shape[2]

\* C11: after any sequence of training batch steps and optimizer steps every
\* parameter matrix (embedding lookup, feed-forward weights and biases, head
\* weights and biases, and the matrices handed to Optimizer::step) has the
\* shape it was constructed with.
C11_ShapesNeverChange ==
    /\ \A l \in 1..Len(model0.encoder_layers) :
          \A f \in {"w1", "b1", "w2", "b2"} :
              HasShape(model.encoder_layers[l].feed_forward[f],
                       Shape(model0.encoder_layers[l].feed_forward[f]))
    /\ Len(model.encoder_layers) = Len(model0.encoder_layers)
    /\ HasShape(model.classification_head.weights, Shape(model0.classification_head.weights))
    /\ HasShape(model.classification_head.biases, Shape(model0.classification_head.biases))
    /\ HasShape(model.embeddings.token_embedding_matrix,
                Shape(model0.embeddings.token_embedding_matrix))
    /\ \A s \in Shapes : HasShape(mats[s], s)

\* two Adam steps have changed the values of the 2 x 2 matrix of test_adam
C11_Witness ==
    /\ optimizer.optimizer_type = "Adam"
    /\ completed = 2
    /\ opt_call.key = <<2, 2>>
    /\ mats[<<2, 2>>] # InitialMatrix(<<2, 2>>)

-----------------------------------------------------------------------------
(* The tokenizer driven with vocabularies, texts and id sequences *)

MaxTextLen == 4

MaxPadLen == 3

\* vocabularies with both special tokens
TokVocabs ==
    { (PAD_TOKEN :> 0) @@ (UNK_TOKEN :> 1) @@ ("a" :> 2) @@ ("ab" :> 3),
      (UNK_TOKEN :> 0) @@ (PAD_TOKEN :> 1) @@ ("b" :> 2),
      (PAD_TOKEN :> 0) @@ (UNK_TOKEN :> 1) }

\* vocabularies handed to Tokenizer::new: those, and some without a special
\* token
NewVocabs ==
    TokVocabs \cup { (PAD_TOKEN :> 0), (UNK_TOKEN :> 0), ("a" :> 0),
                     (PAD_TOKEN :> 0) @@ ("a" :> 1), (UNK_TOKEN :> 0) @@ ("a" :> 1) }

Tokenizers ==
    {Unwrap(TokenizerNew(vocab, n).value) : vocab \in TokVocabs, n \in 0..MaxPadLen}

MaxDocs == 2

MaxVocabSize == 4

\* the texts of the corpora: "a B", "a a", "aB!" and the empty text
Texts == { <<"a", " ", "B">>, <<"a", " ", "a">>, <<"a", "B", "!">>, <<>> }

\* lists of special tokens: those of test_build_vocab, none, one, one that
\* is also a token of the corpus
SpecialTokenLists == { <<PAD_TOKEN, UNK_TOKEN>>, <<>>, <<PAD_TOKEN>>, <<"a">> }

MaxVocabSizes == {None} \cup {Some(n) : n \in 0..MaxVocabSize}

TokInit ==
    /\ optimizer = OptimizerNew("SGD")
    /\ OptIdle
    /\ EmbIdle
    /\ TrainIdle
    /\ FnIdle

\* Tokenizer::new(vocab, max_seq_length)
TokNew(vocab, max_seq_length) ==
    /\ fn_call.kind = "none"
    /\ fn_call' = [kind |-> "Tokenizer::new", vocab |-> vocab,
                   max_seq_length |-> max_seq_length,
                   result |-> TokenizerNew(vocab, max_seq_length)]
    /\ UNCHANGED <<optVars, embVars, trainVars>>

\* self.tokenize(text)
Tokenize(self, text) ==
    /\ fn_call.kind = "none"
    /\ fn_call' = [kind |-> "tokenize", self |-> self, text |-> text,
                   result |-> tokenize(self, text)]
    /\ UNCHANGED <<optVars, embVars, trainVars>>

\* self.pad_sequence(sequence)
PadSequence(self, sequence) ==
    /\ fn_call.kind = "none"
    /\ fn_call' = [kind |-> "pad_sequence", self |-> self, sequence |-> sequence,
                   result |-> pad_sequence(self, sequence)]
    /\ UNCHANGED <<optVars, embVars, trainVars>>

\* Tokenizer::build_vocab(&dataset, special_tokens, max_vocab_size)
BuildVocab(dataset, special_tokens, max_vocab_size, order, overflow_checks) ==
    /\ fn_call.kind = "none"
    /\ fn_call' = [kind |-> "build_vocab", dataset |-> dataset,
                   special_tokens |-> special_tokens,
                   max_vocab_size |-> max_vocab_size,
                   result |-> build_vocab(dataset, special_tokens, max_vocab_size,
                                          order, overflow_checks)]
    /\ UNCHANGED <<optVars, embVars, trainVars>>

TokNext ==
    \/ \E dataset \in SeqsUpTo(Texts, MaxDocs), special_tokens \in SpecialTokenLists,
          max_vocab_size \in MaxVocabSizes, overflow_checks \in BOOLEAN :
          \E order \in SortedOrders(token_counts(dataset)) :
              BuildVocab(dataset, special_tokens, max_vocab_size, order, overflow_checks)
    \/ \E vocab \in NewVocabs, n \in 0..MaxPadLen : TokNew(vocab, n)
    \/ \E self \in Tokenizers, text \in SeqsUpTo(Chars, MaxTextLen) : Tokenize(self, text)
    \/ \E self \in Tokenizers, sequence \in SeqsUpTo(0..3, MaxPadLen + 1) :
          PadSequence(self, sequence)

TokSpec == TokInit /\ [][TokNext]_vars

-----------------------------------------------------------------------------
(* Properties of the tokenizer *)

\* the alphanumeric characters of a text, lower-cased, with blanks kept
Cleaned(text) ==
    SelectSeq([k \in 1..Len(text) |-> to_lowercase(text[k])],
              LAMBDA c : c \in {"a", "b", " "})

\* the strings of a sequence one after the other
RECURSIVE Concat(_)
Concat(strs) == IF strs = <<>> THEN "" ELSE Head(strs) \o Concat(Tail(strs))

\* the number of maximal blank-free runs of a cleaned text
NumRuns(chars) ==
    Cardinality({k \in 1..Len(chars) :
                    chars[k] # " " /\ (k = 1 \/ chars[k - 1] = " ")})

\* C12: tokenize yields one id per preprocessed token, in order: the tokens
\* are the blank-free runs of the lower-cased text without its
\* non-alphanumeric characters, and a token's id is its vocabulary id when it
\* is a key of the vocabulary and the id of UNK_TOKEN otherwise.
C12_TokenizeMapsTokens ==
    fn_call.kind = "tokenize" =>
        LET tokens == preprocess_text(fn_call.text)
            cleaned == Cleaned(fn_call.text)
            vocab == fn_call.self.vocab
        IN  /\ Len(tokens) = NumRuns(cleaned)
            /\ \A k \in 1..Len(tokens) : tokens[k] # ""
            /\ Concat(tokens) = Concat(SelectSeq(cleaned, LAMBDA c : c # " "))
            /\ Len(fn_call.result) = Len(tokens)
            /\ \A k \in 1..Len(tokens) :
                  fn_call.result[k] = IF tokens[k] \in DOMAIN vocab THEN vocab[tokens[k]]
                                      ELSE vocab[UNK_TOKEN]

\* a text of an unknown token, written in upper case after a punctuation
\* mark, and a known one
C12_Witness ==
    /\ fn_call.kind = "tokenize"
    /\ fn_call.text = <<"!", "B", " ", "a">>
    /\ fn_call.self.vocab[UNK_TOKEN] = 1
    /\ fn_call.result = <<1, 2>>

\* C13: pad_sequence returns exactly max_seq_length ids: the input's first
\* max_seq_length ids, followed by the id of PAD_TOKEN when the input is
\* shorter.
C13_PadSequenceLength ==
    fn_call.kind = "pad_sequence" =>
        LET n == fn_call.self.max_seq_length
            input == fn_call.sequence
        IN  /\ Len(fn_call.result) = n
            /\ \A k \in 1..n :
                  fn_call.result[k] = IF k <= Len(input) THEN input[k]
                                      ELSE fn_call.self.vocab[PAD_TOKEN]

\* a longer input is cut to its first ids
C13_Witness ==
    /\ fn_call.kind = "pad_sequence"
    /\ fn_call.self.max_seq_length = 2
    /\ fn_call.sequence = <<3, 2, 1>>
    /\ fn_call.result = <<3, 2>>

\* C14: Tokenizer::new returns a Tokenizer exactly for a vocabulary that holds
\* PAD_TOKEN and UNK_TOKEN; otherwise it panics naming a missing token and
\* no Tokenizer exists.
C14_NewRequiresSpecialTokens ==
    fn_call.kind = "Tokenizer::new" =>
        LET r == fn_call.result
            complete == {PAD_TOKEN, UNK_TOKEN} \subseteq DOMAIN fn_call.vocab
        IN  /\ r.panicked <=> ~complete
            /\ r.panicked =>
                  /\ r.value = None
                  /\ r.missing \in {PAD_TOKEN, UNK_TOKEN} \ DOMAIN fn_call.vocab
            /\ ~r.panicked =>
                  r.value = Some([vocab |-> fn_call.vocab,
                                  max_seq_length |-> fn_call.max_seq_length])

\* the vocabulary of test_vocab_missing_special_token
C14_Witness ==
    /\ fn_call.kind = "Tokenizer::new"
    /\ fn_call.vocab = (PAD_TOKEN :> 0)
    /\ fn_call.result.panicked
    /\ fn_call.result.missing = UNK_TOKEN

\* C15: for max_vocab_size = Some(n) and k special tokens build_vocab
\* returns a mapping in which no two tokens share an id, the special tokens
\* hold the ids 0..k-1 in the given order, the other tokens hold the ids
\* from k on without a gap, tokens of the corpus in the order of falling
\* frequency, and there are at most n entries.
C15_BuildVocabIds ==
    (fn_call.kind = "build_vocab" /\ fn_call.max_vocab_size # None) =>
        /\ ~fn_call.result.panicked
        /\ LET vocab == Unwrap(fn_call.result.value)
               special_tokens == fn_call.special_tokens
               k == Len(special_tokens)
               n == Unwrap(fn_call.max_vocab_size)
               counts == token_counts(fn_call.dataset)
               others == DOMAIN vocab \ {special_tokens[i] : i \in 1..k}
           IN  /\ \A t, u \in DOMAIN vocab : t # u => vocab[t] # vocab[u]
               /\ \A i \in 1..k : /\ special_tokens[i] \in DOMAIN vocab
                                  /\ vocab[special_tokens[i]] = i - 1
               /\ {vocab[t] : t \in others} = k..(k + Cardinality(others) - 1)
               /\ \A t, u \in others :
                     /\ t \in DOMAIN counts
                     /\ vocab[t] < vocab[u] => counts[t] >= counts[u]
               /\ \A t \in DOMAIN counts \ DOMAIN vocab, u \in others :
                     counts[u] >= counts[t]
               /\ Cardinality(DOMAIN vocab) <= n

\* C30: with max_vocab_size = None build_vocab imposes no cap: it returns a
\* mapping in which every distinct token of the corpus has an id, and that
\* has as many entries as there are special tokens and distinct tokens of
\* the corpus together.
C30_NoCapWithoutMax ==
    (fn_call.kind = "build_vocab" /\ fn_call.max_vocab_size = None) =>
        /\ ~fn_call.result.panicked
        /\ LET vocab == Unwrap(fn_call.result.value)
               tokens == DOMAIN token_counts(fn_call.dataset)
           IN  /\ tokens \subseteq DOMAIN vocab
               /\ Cardinality(DOMAIN vocab) =
                      Len(fn_call.special_tokens) + Cardinality(tokens)

-----------------------------------------------------------------------------
(* The data loader driven with files and with inputs to batch *)

MaxRecords == 2

MaxChunks == 2

\* the fields of a record: a text or none, and a label that is an unsigned
\* integer, absent, negative or a fraction
RecordItems ==
    { [text |-> text, label |-> label] :
        text \in {Some(<<"a", " ", "B">>), None},
        label \in { [kind |-> "u64", value |-> 1], [kind |-> "missing", value |-> 0],
                    [kind |-> "negative", value |-> -1], [kind |-> "float", value |-> 1] } }

\* files: every extension, unreadable files, files the parser rejects, JSON
\* values that are no array, and arrays or rows of records
LoaderFiles ==
    { [extension |-> extension, readable |-> readable, syntax_ok |-> syntax_ok,
       is_array |-> TRUE, items |-> items] :
        extension \in {"csv", "json", "txt"}, readable \in BOOLEAN,
        syntax_ok \in BOOLEAN, items \in SeqsUpTo(RecordItems, MaxRecords) }
    \cup { [FileOf("json", <<>>) EXCEPT !.is_array = FALSE] }

\* n inputs of one id each
InputsOf(n) == [k \in 1..n |-> <<k % 3>>]

LabelsOf(n) == [k \in 1..n |-> k % 2]

DataInit ==
    /\ optimizer = OptimizerNew("SGD")
    /\ OptIdle
    /\ EmbIdle
    /\ TrainIdle
    /\ FnIdle

\* self.load_dataset(file_path)
LoadDataset(tok, file) ==
    /\ fn_call.kind = "none"
    /\ fn_call' = [kind |-> "load_dataset", tokenizer |-> tok, file |-> file,
                   result |-> load_dataset(tok, file)]
    /\ UNCHANGED <<optVars, embVars, trainVars>>

\* self.create_batches(inputs, labels)
CreateBatches(inputs, labels) ==
    /\ fn_call.kind = "none"
    /\ fn_call' = [kind |-> "create_batches", inputs |-> inputs, labels |-> labels,
                   result |-> create_batches(inputs, labels)]
    /\ UNCHANGED <<optVars, embVars, trainVars>>

DataNext ==
    \/ \E tok \in {t \in Tokenizers : t.max_seq_length \in {1, 3}},
          file \in LoaderFiles : LoadDataset(tok, file)
    \/ \E n \in 0..(MaxChunks * BATCH_SIZE + 1), m \in 0..(MaxChunks * BATCH_SIZE + 1) :
          /\ m \in {n, n - 1}
          /\ CreateBatches(InputsOf(n), LabelsOf(m))

DataSpec == DataInit /\ [][DataNext]_vars

-----------------------------------------------------------------------------
(* Properties of the data loader *)

\* the sequences of a sequence one after the other
RECURSIVE JoinChunks(_)
JoinChunks(chunks) ==
    IF chunks = <<>> THEN <<>> ELSE Head(chunks) \o JoinChunks(Tail(chunks))

\* C16: for inputs and labels of equal length the pairs of create_batches,
\* joined in order, are the inputs and the labels; every pair has as many
\* inputs as labels, every pair but the last has BATCH_SIZE of them, the
\* last has between 1 and BATCH_SIZE, and no pair is empty.
C16_BatchesPartitionInput ==
    (fn_call.kind = "create_batches" /\ Len(fn_call.inputs) = Len(fn_call.labels)) =>
        LET pairs == fn_call.result
            n == Len(pairs)
        IN  /\ JoinChunks([k \in 1..n |-> pairs[k][1]]) = fn_call.inputs
            /\ JoinChunks([k \in 1..n |-> pairs[k][2]]) = fn_call.labels
            /\ \A k \in 1..n :
                  /\ Len(pairs[k][1]) = Len(pairs[k][2])
                  /\ Len(pairs[k][1]) >= 1
                  /\ Len(pairs[k][1]) <= BATCH_SIZE
                  /\ k < n => Len(pairs[k][1]) = BATCH_SIZE

\* one full batch and a last batch of a single sample
C16_Witness ==
    /\ fn_call.kind = "create_batches"
    /\ Len(fn_call.inputs) = BATCH_SIZE + 1
    /\ Len(fn_call.labels) = BATCH_SIZE + 1
    /\ Len(fn_call.result) = 2
    /\ Len(fn_call.result[2][1]) = 1

\* C17: load_dataset returns an Err, never a partial or empty result, when
\* the extension is neither csv nor json, when a record lacks its text or
\* its label, when a label is no non-negative integer, or when the JSON
\* content is no array of records; an Ok holds one input of max_seq_length
\* ids and one label per record, in file order.
C17_LoadDatasetErrors ==
    fn_call.kind = "load_dataset" =>
        LET file == fn_call.file
            tok == fn_call.tokenizer
            r == fn_call.result
            bad == \/ file.extension \notin {"csv", "json"}
                   \/ \E k \in 1..Len(file.items) :
                         \/ file.items[k].text = None
                         \/ file.items[k].label.kind # "u64"
                   \/ file.extension = "json" /\ ~file.is_array
        IN  /\ bad => ~r.ok
            /\ r.ok =>
                  /\ Len(r.inputs) = Len(file.items)
                  /\ Len(r.labels) = Len(file.items)
                  /\ \A k \in 1..Len(file.items) :
                        /\ Len(r.inputs[k]) = tok.max_seq_length
                        /\ r.inputs[k] = tokenize_and_pad(tok, Unwrap(file.items[k].text))
                        /\ r.labels[k] = file.items[k].label.value

-----------------------------------------------------------------------------
(* attention/attention_mechanism.rs on Array2<f64>, attention/attention.rs on
   Vec<Vec<f32>>; entries are in thousandths *)

\* an Array2 with its shape, which an array without rows or without columns
\* keeps; the rows are stored as tuples
Array2(nrows, ncols, data) ==
    [nrows |-> nrows, ncols |-> ncols,
     data |-> [i \in 1..Len(data) |-> data[i] \o <<>>] \o <<>>]

\* f64::exp of an argument <= 0 in thousandths, in thousandths: e^-n from a
\* table, the fraction by the exponential series
ExpWhole(n) ==
    CASE n = 0 -> 1000 [] n = 1 -> 368 [] n = 2 -> 135 [] n = 3 -> 50
      [] n = 4 -> 18 [] n = 5 -> 7 [] n = 6 -> 2 [] n = 7 -> 1 [] OTHER -> 0

ExpFrac(f) ==
    1000 - f + (f * f) \div 2000 - (f * f * f) \div 6000000
        + (((f * f) \div 1000) * ((f * f) \div 1000)) \div 24000

ExpNeg(x) == (ExpWhole((-x) \div 1000) * ExpFrac((-x) % 1000)) \div 1000

\* the sum of the products of two rows, zip ending with the shorter one
DotRows(a, b) ==
    SumSeq([c \in 1..(IF Len(a) < Len(b) THEN Len(a) ELSE Len(b)) |->
                (a[c] * b[c]) \div 1000])

\* one row of softmax(Q K^T / sqrt(d_k)) for a row of Q
AttentionWeights(q_row, key, d_k) ==
    LET scaled == [j \in 1..Len(key) |->
                      (DotRows(q_row, key[j]) * 1000) \div Sqrt(d_k * 1000000)]
        max == MaxSeq(scaled)
        exp_sum == SumSeq([j \in 1..Len(key) |-> ExpNeg(scaled[j] - max)])
    IN  [j \in 1..Len(key) |-> (ExpNeg(scaled[j] - max) * 1000) \div exp_sum]

\* the weighted sums of the rows of V, ncols columns wide
Attend(query, key, value, d_k, ncols) ==
    [i \in 1..Len(query) |->
        [j \in 1..ncols |->
            LET weights == AttentionWeights(query[i], key, d_k)
            IN  SumSeq([n \in 1..(IF Len(weights) < Len(value) THEN Len(weights)
                                  ELSE Len(value)) |->
                           (weights[n] * value[n][j]) \div 1000])]]

\* attention_mechanism.rs, scaled_dot_product_attention: it asserts nothing
\* about empty arrays
scaled_dot_product_attention(query, key, value) ==
    IF query.ncols # key.ncols \/ key.nrows # value.nrows
    THEN [panicked |-> TRUE, value |-> None]
    ELSE [panicked |-> FALSE,
          value |-> Some(Array2(query.nrows, value.ncols,
                                Attend(query.data, key.data, value.data,
                                       key.ncols, value.ncols)))]

\* attention.rs, scaled_dot_product_attention on vectors of rows: the first
\* assertion is about the outer vectors, the second about the first rows
scaled_dot_product_attention_vec(query, key, value) ==
    IF query = <<>> \/ key = <<>> \/ value = <<>> THEN [panicked |-> TRUE, value |-> None]
    ELSE IF Len(query[1]) # Len(key[1]) \/ Len(key) # Len(value)
    THEN [panicked |-> TRUE, value |-> None]
    ELSE [panicked |-> FALSE,
          value |-> Some(Attend(query, key, value, Len(key[1]), Len(value[1])))]

\* matrix.slice(s![.., from..to]): the columns from..to, counted from 0
SliceCols(matrix, from, to) ==
    Array2(matrix.nrows, to - from,
           [i \in 1..matrix.nrows |-> [j \in 1..(to - from) |-> matrix.data[i][from + j]]])

\* the closure split_heads: one slice of head_dim columns per head
split_heads(matrix, num_heads, head_dim) ==
    [h \in 1..num_heads |-> SliceCols(matrix, (h - 1) * head_dim, h * head_dim)]

\* the slices of split_heads lie within the columns of the matrix
SliceFits(matrix, num_heads, head_dim) == num_heads * head_dim <= matrix.ncols

\* the outputs of the heads assigned to the columns h * head_dim .. (h + 1) *
\* head_dim of a matrix of zeros
Concatenate(head_outputs, nrows, ncols, head_dim) ==
    Array2(nrows, ncols,
           [i \in 1..nrows |->
               [c \in 1..ncols |->
                   IF head_dim = 0 THEN 0
                   ELSE head_outputs[((c - 1) \div head_dim) + 1].data[i][((c - 1) % head_dim) + 1]]])

\* the heads written in the opposite order of columns
multi_head_attention_reversed(query, key, value, num_heads) ==
    IF num_heads = 0 \/ key.nrows # value.nrows THEN [panicked |-> TRUE, value |-> None]
    ELSE IF query.ncols % num_heads # 0 THEN [panicked |-> TRUE, value |-> None]
    ELSE LET head_dim == query.ncols \div num_heads
         IN  IF ~SliceFits(key, num_heads, head_dim) \/ ~SliceFits(value, num_heads, head_dim)
             THEN [panicked |-> TRUE, value |-> None]
             ELSE LET query_heads == split_heads(query, num_heads, head_dim)
                      key_heads == split_heads(key, num_heads, head_dim)
                      value_heads == split_heads(value, num_heads, head_dim)
                      head_outputs ==
                          [h \in 1..num_heads |->
                              Unwrap(scaled_dot_product_attention(
                                         query_heads[num_heads + 1 - h],
                                         key_heads[num_heads + 1 - h],
                                         value_heads[num_heads + 1 - h]).value)]
                  IN  [panicked |-> FALSE,
                       value |-> Some(Concatenate(head_outputs, query.nrows,
                                                  query.ncols, head_dim))]

\* attention_mechanism.rs, multi_head_attention: the remainder by num_heads = 0
\* panics, a slice beyond the columns of K or V panics, and so does a head
\* whose K and V differ in rows
multi_head_attention(query, key, value, num_heads) ==
    IF num_heads = 0 THEN [panicked |-> TRUE, value |-> None]
    ELSE IF query.ncols % num_heads # 0 THEN [panicked |-> TRUE, value |-> None]
    ELSE LET head_dim == query.ncols \div num_heads
         IN  IF ~SliceFits(key, num_heads, head_dim) \/ ~SliceFits(value, num_heads, head_dim)
             THEN [panicked |-> TRUE, value |-> None]
             ELSE LET query_heads == split_heads(query, num_heads, head_dim)
                      key_heads == split_heads(key, num_heads, head_dim)
                      value_heads == split_heads(value, num_heads, head_dim)
                      head_results ==
                          [h \in 1..num_heads |->
                              scaled_dot_product_attention(query_heads[h], key_heads[h],
                                                           value_heads[h])]
                  IN  IF \E h \in 1..num_heads : head_results[h].panicked
                      THEN [panicked |-> TRUE, value |-> None]
                      ELSE [panicked |-> FALSE,
                            value |->
                               Some(Concatenate([h \in 1..num_heads |->
                                                    Unwrap(head_results[h].value)],
                                                query.nrows, query.ncols, head_dim))]

\* attention.rs, multi_head_attention on vectors of rows: the three assertions
\* first, then the divisibility; value[i][h * head_dim + j] panics on a row of
\* V shorter than d_model
multi_head_attention_vec(query, key, value, num_heads) ==
    IF query = <<>> \/ key = <<>> \/ value = <<>> THEN [panicked |-> TRUE, value |-> None]
    ELSE IF Len(query[1]) # Len(key[1]) \/ Len(key) # Len(value)
    THEN [panicked |-> TRUE, value |-> None]
    ELSE IF num_heads = 0 THEN [panicked |-> TRUE, value |-> None]
    ELSE IF Len(query[1]) % num_heads # 0 THEN [panicked |-> TRUE, value |-> None]
    ELSE LET d_model == Len(query[1])
             head_dim == d_model \div num_heads
             HeadOf(matrix, h) ==
                 [i \in 1..Len(matrix) |->
                     [j \in 1..head_dim |-> matrix[i][(h - 1) * head_dim + j]]]
         IN  IF \E i \in 1..Len(value) : Len(value[i]) < num_heads * head_dim
             THEN [panicked |-> TRUE, value |-> None]
             ELSE LET head_results ==
                          [h \in 1..num_heads |->
                              scaled_dot_product_attention_vec(HeadOf(query, h), HeadOf(key, h),
                                                               HeadOf(value, h))]
                  IN  IF \E h \in 1..num_heads : head_results[h].panicked
                      THEN [panicked |-> TRUE, value |-> None]
                      ELSE [panicked |-> FALSE,
                            value |->
                               Some([i \in 1..Len(query) |->
                                       [c \in 1..d_model |->
                                           IF head_dim = 0 THEN 0
                                           ELSE Unwrap(head_results[((c - 1) \div head_dim) + 1].value)
                                                    [i][((c - 1) % head_dim) + 1]]])]

-----------------------------------------------------------------------------
(* The attention functions driven with matrices *)

MaxAttnRows == 2

MaxAttnCols == 2

\* the rows of an nrows x ncols matrix with entries 0, 1 and 2
AttnData(nrows, ncols, seed) ==
    [i \in 1..nrows |-> [j \in 1..ncols |-> ((i + 2 * j + seed) % 3) * 1000]]

\* queries: with and without rows, at least one column
Queries ==
    {Array2(r, c, AttnData(r, c, seed)) :
        r \in 0..MaxAttnRows, c \in 1..MaxAttnCols, seed \in {0, 1}}

Keys == {Array2(r, c, AttnData(r, c, 1)) : r \in 0..MaxAttnRows, c \in 1..MaxAttnCols}

\* values: with and without rows, with and without columns
Values == {Array2(r, c, AttnData(r, c, 2)) : r \in 0..MaxAttnRows, c \in 0..MaxAttnCols}

AttnInit ==
    /\ optimizer = OptimizerNew("SGD")
    /\ OptIdle
    /\ EmbIdle
    /\ TrainIdle
    /\ FnIdle

\* scaled_dot_product_attention(&query, &key, &value) on arrays
Attention(query, key, value) ==
    /\ fn_call.kind = "none"
    /\ fn_call' = [kind |-> "scaled_dot_product_attention", on |-> "Array2",
                   query |-> query, key |-> key, value |-> value,
                   result |-> scaled_dot_product_attention(query, key, value)]
    /\ UNCHANGED <<optVars, embVars, trainVars>>

\* scaled_dot_product_attention(&query, &key, &value) on vectors of rows
AttentionVec(query, key, value) ==
    /\ fn_call.kind = "none"
    /\ fn_call' = [kind |-> "scaled_dot_product_attention", on |-> "Vec",
                   query |-> query, key |-> key, value |-> value,
                   result |->
                      LET r == scaled_dot_product_attention_vec(query.data, key.data,
                                                               value.data)
                      IN  IF r.panicked THEN r
                          ELSE [panicked |-> FALSE,
                                value |-> Some(Array2(Len(Unwrap(r.value)),
                                                      Cols(Unwrap(r.value)),
                                                      Unwrap(r.value)))]]
    /\ UNCHANGED <<optVars, embVars, trainVars>>

\* the numbers of heads: none, one, and up to more than the columns
NumHeads == 0..(MaxAttnCols + 1)

\* multi_head_attention(&query, &key, &value, num_heads) on arrays
MultiHead(query, key, value, num_heads) ==
    /\ fn_call.kind = "none"
    /\ fn_call' = [kind |-> "multi_head_attention", on |-> "Array2",
                   query |-> query, key |-> key, value |-> value,
                   num_heads |-> num_heads,
                   result |-> multi_head_attention(query, key, value, num_heads)]
    /\ UNCHANGED <<optVars, embVars, trainVars>>

\* multi_head_attention(&query, &key, &value, num_heads) on vectors of rows
MultiHeadVec(query, key, value, num_heads) ==
    /\ fn_call.kind = "none"
    /\ fn_call' = [kind |-> "multi_head_attention", on |-> "Vec",
                   query |-> query, key |-> key, value |-> value,
                   num_heads |-> num_heads,
                   result |->
                      LET r == multi_head_attention_vec(query.data, key.data, value.data,
                                                        num_heads)
                      IN  IF r.panicked THEN r
                          ELSE [panicked |-> FALSE,
                                value |-> Some(Array2(Len(Unwrap(r.value)),
                                                      Cols(Unwrap(r.value)),
                                                      Unwrap(r.value)))]]
    /\ UNCHANGED <<optVars, embVars, trainVars>>

AttnNext ==
    \/ \E query \in Queries, key \in Keys, value \in Values : Attention(query, key, value)
    \/ \E query \in Queries, key \in Keys, value \in Values : AttentionVec(query, key, value)
    \/ \E query \in Queries, key \in Keys, value \in Values, num_heads \in NumHeads :
           MultiHead(query, key, value, num_heads)
    \/ \E query \in Queries, key \in Keys, value \in Values, num_heads \in NumHeads :
           MultiHeadVec(query, key, value, num_heads)

AttnSpec == AttnInit /\ [][AttnNext]_vars

-----------------------------------------------------------------------------
(* Properties of the attention functions *)

\* an array without elements
IsEmpty(a) == a.nrows = 0 \/ a.ncols = 0

\* C18: scaled_dot_product_attention fails, returning nothing, whenever one
\* of Q, K, V is empty, Q and K differ in their number of columns or K and V
\* in their number of rows; otherwise it returns a matrix with the rows of Q
\* and the columns of V.
C18_AttentionPreconditions ==
    fn_call.kind = "scaled_dot_product_attention" =>
        LET q == fn_call.query
            k == fn_call.key
            v == fn_call.value
            r == fn_call.result
            bad == \/ IsEmpty(q) \/ IsEmpty(k) \/ IsEmpty(v)
                   \/ q.ncols # k.ncols
                   \/ k.nrows # v.nrows
        IN  /\ bad => r.panicked /\ r.value = None
            /\ ~bad => /\ ~r.panicked
                       /\ Unwrap(r.value).nrows = q.nrows
                       /\ Unwrap(r.value).ncols = v.ncols

\* the call is within the preconditions of the attention of each head: Q, K
\* and V are model_dim columns wide, K and V have the same rows, none is empty
HeadsAttendable ==
    /\ fn_call.key.ncols = fn_call.query.ncols
    /\ fn_call.value.ncols = fn_call.query.ncols
    /\ fn_call.key.nrows = fn_call.value.nrows
    /\ ~IsEmpty(fn_call.query) /\ ~IsEmpty(fn_call.key) /\ ~IsEmpty(fn_call.value)

\* C19: multi_head_attention fails when model_dim is not divisible by
\* num_heads; otherwise the num_heads slices of width model_dim / num_heads
\* cover every column of Q, K and V exactly once, the columns h * head_dim up
\* to (h + 1) * head_dim of the result are the attention of the h-th slices,
\* and the result has the shape of Q.
C19_MultiHeadSlices ==
    fn_call.kind = "multi_head_attention" =>
        LET q == fn_call.query
            k == fn_call.key
            v == fn_call.value
            n == fn_call.num_heads
            r == fn_call.result
            model_dim == q.ncols
            divisible == n > 0 /\ model_dim % n = 0
        IN  /\ ~divisible => r.panicked /\ r.value = None
            /\ divisible /\ HeadsAttendable => ~r.panicked
            /\ ~r.panicked =>
                 LET head_dim == model_dim \div n
                     out == Unwrap(r.value)
                 IN  /\ \A c \in 0..(model_dim - 1) :
                            Cardinality({h \in 0..(n - 1) :
                                            h * head_dim <= c /\ c < (h + 1) * head_dim}) = 1
                     /\ out.nrows = q.nrows /\ out.ncols = q.ncols
                     /\ Len(out.data) = q.nrows
                     /\ \A h \in 0..(n - 1) :
                            SliceCols(out, h * head_dim, (h + 1) * head_dim) =
                                Unwrap(scaled_dot_product_attention(
                                           SliceCols(q, h * head_dim, (h + 1) * head_dim),
                                           SliceCols(k, h * head_dim, (h + 1) * head_dim),
                                           SliceCols(v, h * head_dim, (h + 1) * head_dim)).value)

\* two heads of one column each attended over two rows, with different outputs
C19_Witness ==
    /\ fn_call.kind = "multi_head_attention"
    /\ fn_call.on = "Array2"
    /\ fn_call.num_heads = 2
    /\ fn_call.query.nrows = 2 /\ fn_call.query.ncols = 2
    /\ fn_call.key.nrows = 2
    /\ ~fn_call.result.panicked
    /\ \E i \in 1..2 : Unwrap(fn_call.result.value).data[i][1]
                           # Unwrap(fn_call.result.value).data[i][2]

-----------------------------------------------------------------------------
(* Loss::cross_entropy_loss driven with logits and labels *)

MaxLogitRows == 2

MaxClasses == 2

\* logits of nrows rows and ncols classes, each row within 4 of its maximum
LogitsOf(nrows, ncols, seed) ==
    [i \in 1..nrows |-> [c \in 1..ncols |-> ((i * seed + c) % 3) * 1000 - 1000]]

LogitMatrices ==
    {LogitsOf(nrows, ncols, seed) :
        nrows \in 0..MaxLogitRows, ncols \in 0..MaxClasses, seed \in {1, 2}}

\* labels: fewer, as many and more than the rows, within and beyond the classes
LabelVectors == SeqsUpTo(0..MaxClasses, MaxLogitRows + 1)

LossInit ==
    /\ optimizer = OptimizerNew("SGD")
    /\ OptIdle
    /\ EmbIdle
    /\ TrainIdle
    /\ FnIdle

\* Loss::cross_entropy_loss(&logits, &labels)
CrossEntropyLoss(logits, labels) ==
    /\ fn_call.kind = "none"
    /\ fn_call' = [kind |-> "cross_entropy_loss", logits |-> logits, labels |-> labels,
                   result |-> cross_entropy_loss(logits, labels)]
    /\ UNCHANGED <<optVars, embVars, trainVars>>

\* Loss::gradients(&logits, &labels)
Gradients(logits, labels) ==
    /\ fn_call.kind = "none"
    /\ fn_call' = [kind |-> "gradients", logits |-> logits, labels |-> labels,
                   result |-> gradients(logits, labels)]
    /\ UNCHANGED <<optVars, embVars, trainVars>>

LossNext ==
    \/ \E logits \in LogitMatrices, labels \in LabelVectors : CrossEntropyLoss(logits, labels)
    \/ \E logits \in LogitMatrices, labels \in LabelVectors : Gradients(logits, labels)

LossSpec == LossInit /\ [][LossNext]_vars

-----------------------------------------------------------------------------
(* Properties of the loss *)

\* one label per row of the logits, each one a class of the logits
ValidLabels(logits, labels) ==
    /\ Len(labels) = Rows(logits)
    /\ \A i \in 1..Len(labels) : labels[i] < Cols(logits)

\* C20: Loss::cross_entropy_loss fails when the number of labels differs from
\* the number of rows of the logits or when a label is not smaller than the
\* number of classes; it returns a loss only when there is one valid class
\* index per row.
C20_LossPreconditions ==
    fn_call.kind = "cross_entropy_loss" =>
        LET valid == ValidLabels(fn_call.logits, fn_call.labels)
            r == fn_call.result
        IN  /\ ~valid => r.panicked
            /\ ~r.panicked => valid
            /\ valid /\ fn_call.labels # <<>> =>
                   ~r.panicked /\ r.value.class = "finite" /\ r.value.v >= 0

\* two rows of two classes with their two labels, and a positive loss
C20_Witness ==
    /\ fn_call.kind = "cross_entropy_loss"
    /\ Rows(fn_call.logits) = 2 /\ Cols(fn_call.logits) = 2
    /\ fn_call.labels = <<1, 0>>
    /\ ~fn_call.result.panicked
    /\ fn_call.result.value.class = "finite"
    /\ fn_call.result.value.v > 0

C25_GradientsPreconditions ==
    (fn_call.kind = "gradients" /\ ~ValidLabels(fn_call.logits, fn_call.labels)) =>
        fn_call.result.panicked

-----------------------------------------------------------------------------
(* layer_norm/layer_norm_impl.rs, LayerNorm/layer_norm.rs: the arithmetic is
   exact on fractions, the square root is kept as a symbol, and the rounding
   of f64 is left out *)

RECURSIVE Gcd(_, _)
Gcd(a, b) == IF b = 0 THEN a ELSE Gcd(b, a % b)

\* the fraction n / d in lowest terms, d # 0
Rat(n, d) ==
    LET g == Gcd(Abs(n), Abs(d))
        sign == IF d < 0 THEN -1 ELSE 1
    IN  [num |-> sign * (n \div g), den |-> sign * (d \div g)]

RAdd(x, y) == Rat(x.num * y.den + y.num * x.den, x.den * y.den)

RSub(x, y) == Rat(x.num * y.den - y.num * x.den, x.den * y.den)

RMul(x, y) == Rat(x.num * y.num, x.den * y.den)

RDiv(x, y) == Rat(x.num * y.den, x.den * y.num)

RLeq(x, y) == x.num * y.den <= y.num * x.den

RECURSIVE RSum(_)
RSum(s) == IF s = <<>> THEN Rat(0, 1) ELSE RAdd(s[1], RSum(Tail(s)))

\* the f64 value a / sqrt(root) + b
OverRoot(a, root, b) == [a |-> a, root |-> root, b |-> b]

\* the mean and the biased variance of a row of fractions
RowMean(inputs) == RDiv(RSum(inputs), Rat(Len(inputs), 1))

RowVariance(inputs) ==
    LET mean == RowMean(inputs)
    IN  RDiv(RSum([i \in 1..Len(inputs) |->
                      RMul(RSub(inputs[i], mean), RSub(inputs[i], mean))]),
             Rat(Len(inputs), 1))

\* the normalisation of a non-empty row: gamma[i] * (x - mean) / sqrt(variance
\* + epsilon) + beta[i]
NormalizeRow(inputs, epsilon, gamma, beta) ==
    LET mean == RowMean(inputs)
        variance == RowVariance(inputs)
    IN  [i \in 1..Len(inputs) |->
            OverRoot(RMul(gamma[i], RSub(inputs[i], mean)), RAdd(variance, epsilon),
                     beta[i])]

\* the normalisation without the subtraction of the mean
apply_layer_norm_uncentered(inputs, epsilon, gamma, beta) ==
    IF Len(inputs) # Len(gamma) \/ Len(inputs) # Len(beta)
    THEN [panicked |-> TRUE, value |-> <<>>]
    ELSE [panicked |-> FALSE,
          value |-> [i \in 1..Len(inputs) |->
                        OverRoot(RMul(gamma[i], inputs[i]),
                                 RAdd(RowVariance(inputs), epsilon), beta[i])]]

\* layer_norm_impl.rs, apply_layer_norm: the sizes of gamma and beta are
\* asserted; an empty row maps over nothing
apply_layer_norm(inputs, epsilon, gamma, beta) ==
    IF Len(inputs) # Len(gamma) \/ Len(inputs) # Len(beta)
    THEN [panicked |-> TRUE, value |-> <<>>]
    ELSE [panicked |-> FALSE,
          value |-> IF inputs = <<>> THEN <<>>
                    ELSE NormalizeRow(inputs, epsilon, gamma, beta)]

\* LayerNorm/layer_norm.rs, apply_layer_norm: nothing asserted, gamma[i] and
\* beta[i] panic on a shorter vector, a longer one is read in part
LayerNorm_apply_layer_norm(inputs, epsilon, gamma, beta) ==
    IF Len(inputs) > Len(gamma) \/ Len(inputs) > Len(beta)
    THEN [panicked |-> TRUE, value |-> <<>>]
    ELSE [panicked |-> FALSE,
          value |-> IF inputs = <<>> THEN <<>>
                    ELSE NormalizeRow(inputs, epsilon, gamma, beta)]

-----------------------------------------------------------------------------
(* The layer normalisation driven with rows *)

MaxNormLen == 3

\* the rows of whole numbers 0, 1, 2 of a length up to MaxNormLen
NormRows ==
    {[i \in 1..Len(row) |-> Rat(row[i], 1)] : row \in SeqsUpTo({0, 1, 2}, MaxNormLen)}

\* the epsilon of the tests, 1e-5, and a large one, 0.1
Epsilons == {Rat(1, 100000), Rat(1, 10)}

Constant(len, v) == [i \in 1..len |-> Rat(v, 1)]

\* gamma and beta: scale 1 and shift 0 of the row's length, one entry more,
\* one entry less, and scale 2 with shift 1
ScaleShifts(len) ==
    {<<Constant(len, 1), Constant(len, 0)>>,
     <<Constant(len + 1, 1), Constant(len, 0)>>,
     <<Constant(len, 1), Constant(len + 1, 0)>>,
     <<Constant(len, 2), Constant(len, 1)>>}
    \cup (IF len = 0 THEN {}
          ELSE {<<Constant(len - 1, 1), Constant(len, 0)>>})

NormInit ==
    /\ optimizer = OptimizerNew("SGD")
    /\ OptIdle
    /\ EmbIdle
    /\ TrainIdle
    /\ FnIdle

\* layer_norm::apply_layer_norm(&inputs, epsilon, &gamma, &beta)
ApplyLayerNorm(inputs, epsilon, gamma, beta) ==
    /\ fn_call.kind = "none"
    /\ fn_call' = [kind |-> "apply_layer_norm", module |-> "layer_norm_impl",
                   inputs |-> inputs, epsilon |-> epsilon, gamma |-> gamma, beta |-> beta,
                   result |-> apply_layer_norm(inputs, epsilon, gamma, beta)]
    /\ UNCHANGED <<optVars, embVars, trainVars>>

\* LayerNorm::apply_layer_norm(&inputs, epsilon, &gamma, &beta)
LayerNormApply(inputs, epsilon, gamma, beta) ==
    /\ fn_call.kind = "none"
    /\ fn_call' = [kind |-> "apply_layer_norm", module |-> "LayerNorm",
                   inputs |-> inputs, epsilon |-> epsilon, gamma |-> gamma, beta |-> beta,
                   result |-> LayerNorm_apply_layer_norm(inputs, epsilon, gamma, beta)]
    /\ UNCHANGED <<optVars, embVars, trainVars>>

NormNext ==
    \/ \E inputs \in NormRows, epsilon \in Epsilons :
           \E gb \in ScaleShifts(Len(inputs)) : ApplyLayerNorm(inputs, epsilon, gb[1], gb[2])
    \/ \E inputs \in NormRows, epsilon \in Epsilons :
           \E gb \in ScaleShifts(Len(inputs)) : LayerNormApply(inputs, epsilon, gb[1], gb[2])

NormSpec == NormInit /\ [][NormNext]_vars

-----------------------------------------------------------------------------
(* Properties of the layer normalisation *)

\* a call with scale gamma = 1 and shift beta = 0 on a row of at least two
\* entries that returned
UnitNormCall ==
    /\ fn_call.kind = "apply_layer_norm"
    /\ Len(fn_call.inputs) >= 2
    /\ fn_call.gamma = Constant(Len(fn_call.gamma), 1)
    /\ fn_call.beta = Constant(Len(fn_call.beta), 0)
    /\ ~fn_call.result.panicked

\* the mean of a returned row without shift, times sqrt(root)
OutMean(row) == RowMean([i \in 1..Len(row) |-> row[i].a])

\* the biased variance of a returned row without shift
OutVariance(row) == RDiv(RowVariance([i \in 1..Len(row) |-> row[i].a]), row[1].root)

\* |1 - x| for a fraction x
DistanceToOne(x) ==
    IF RLeq(x, Rat(1, 1)) THEN RSub(Rat(1, 1), x) ELSE RSub(x, Rat(1, 1))

-----------------------------------------------------------------------------
(* FeedForwardNetwork::forward and EncoderLayer::forward on Array2 values in
   thousandths; the weights are in millionths *)

\* x.dot(w) + &b for an x of ncols columns, a w of ncols rows and out columns
\* and a bias row b
Affine(x, w, b, out) ==
    [i \in 1..x.nrows |->
        [k \in 1..out |->
            SumSeq([j \in 1..x.ncols |-> (x.data[i][j] * w[j][k]) \div 1000000])
                + b[1][k] \div 1000]]

\* the network without its second layer
FeedForwardNetwork_forward_hidden(self, x) ==
    IF x.ncols # self.input_dim THEN [panicked |-> TRUE, value |-> None]
    ELSE [panicked |-> FALSE,
          value |-> Some(Array2(x.nrows, self.hidden_dim,
                                Affine(x, self.w1, self.b1, self.hidden_dim)))]

\* FeedForwardNetwork::forward
FeedForwardNetwork_forward(self, x) ==
    IF x.ncols # self.input_dim THEN [panicked |-> TRUE, value |-> None]
    ELSE LET pre == Affine(x, self.w1, self.b1, self.hidden_dim)
             h == Array2(x.nrows, self.hidden_dim,
                         [i \in 1..x.nrows |-> [k \in 1..self.hidden_dim |->
                             IF pre[i][k] > 0 THEN pre[i][k] ELSE 0]])
             y == Affine(h, self.w2, self.b2, self.input_dim)
         IN  [panicked |-> FALSE, value |-> Some(Array2(x.nrows, self.input_dim, y))]

\* the batched apply_layer_norm(X, epsilon) the encoder layer calls: per row
\* (x - mean) / sqrt(variance + epsilon), scale 1 and shift 0; epsilon is in
\* millionths
apply_layer_norm_batched(x, epsilon) ==
    Array2(x.nrows, x.ncols,
           [i \in 1..x.nrows |->
               [j \in 1..x.ncols |->
                   LET row == x.data[i]
                       mean == SumSeq(row) \div x.ncols
                       variance ==
                           SumSeq([c \in 1..x.ncols |->
                                      ((row[c] - mean) * (row[c] - mean)) \div 1000])
                               \div x.ncols
                   IN  ((row[j] - mean) * 1000) \div Sqrt(variance * 1000 + epsilon)]])

\* a + b for two arrays of one shape
ArraySum(a, b) ==
    Array2(a.nrows, a.ncols,
           [i \in 1..a.nrows |-> [j \in 1..a.ncols |-> a.data[i][j] + b.data[i][j]]])

\* EncoderLayer::forward: attention of x with itself, residual, layer norm,
\* feed-forward, residual, layer norm
EncoderLayer_forward(self, x) ==
    LET attention_output == Unwrap(scaled_dot_product_attention(x, x, x).value)
        residual1 == ArraySum(x, attention_output)
        norm1 == apply_layer_norm_batched(residual1, self.epsilon)
        ffn_output == FeedForwardNetwork_forward(self.feed_forward, norm1)
    IN  IF ffn_output.panicked THEN [panicked |-> TRUE, value |-> None]
        ELSE IF Unwrap(ffn_output.value).ncols # norm1.ncols
        THEN [panicked |-> TRUE, value |-> None]
        ELSE [panicked |-> FALSE,
              value |-> Some(apply_layer_norm_batched(
                                 ArraySum(norm1, Unwrap(ffn_output.value)),
                                 self.epsilon))]

\* ClassificationHead::forward: pooled_output.dot(&weights) + &biases; the
\* product panics unless pooled_output has as many columns as weights has rows
ClassificationHead_forward(self, pooled_output) ==
    IF pooled_output.ncols # Rows(self.weights) THEN [panicked |-> TRUE, value |-> None]
    ELSE [panicked |-> FALSE,
          value |-> Some(Array2(pooled_output.nrows, Cols(self.biases),
                                Affine(pooled_output, self.weights, self.biases,
                                       Cols(self.biases))))]

\* sum_vec after the tokens of a sequence were added; sum_vec[i] += val
\* panics on a token longer than sum_vec
RECURSIVE SumTokens(_, _)
SumTokens(sequence, d_model) ==
    IF sequence = <<>> THEN [i \in 1..d_model |-> 0]
    ELSE LET rest == SumTokens(Tail(sequence), d_model)
         IN  [i \in 1..d_model |->
                 (IF i <= Len(sequence[1]) THEN sequence[1][i] ELSE 0) + rest[i]]

\* the pooling that leaves the empty sequences out
RECURSIVE average_pooling_skip_empty(_, _)
average_pooling_skip_empty(self, encoder_output) ==
    IF encoder_output = <<>> THEN [panicked |-> FALSE, value |-> <<>>]
    ELSE LET sequence == encoder_output[1]
             rest == average_pooling_skip_empty(self, Tail(encoder_output))
         IN  IF \E t \in 1..Len(sequence) : Len(sequence[t]) > self.config.d_model
             THEN [panicked |-> TRUE, value |-> <<>>]
             ELSE IF rest.panicked THEN rest
             ELSE IF sequence = <<>> THEN rest
             ELSE [panicked |-> FALSE,
                   value |-> <<[i \in 1..self.config.d_model |->
                                   SumTokens(sequence, self.config.d_model)[i]
                                       \div Len(sequence)]>> \o rest.value]

\* Transformer::average_pooling: the mean of the tokens of each sequence, a
\* row of zeros for an empty sequence
RECURSIVE average_pooling(_, _)
average_pooling(self, encoder_output) ==
    IF encoder_output = <<>> THEN [panicked |-> FALSE, value |-> <<>>]
    ELSE LET sequence == encoder_output[1]
             rest == average_pooling(self, Tail(encoder_output))
             pooled ==
                 IF Len(sequence) = 0 THEN [i \in 1..self.config.d_model |-> 0]
                 ELSE [i \in 1..self.config.d_model |->
                          SumTokens(sequence, self.config.d_model)[i] \div Len(sequence)]
         IN  IF \E t \in 1..Len(sequence) : Len(sequence[t]) > self.config.d_model
             THEN [panicked |-> TRUE, value |-> <<>>]
             ELSE IF rest.panicked THEN rest
             ELSE [panicked |-> FALSE, value |-> <<pooled>> \o rest.value]

\* encoder_output after the layers l, l + 1, .. were applied, each to every
\* sequence of the batch
RECURSIVE ApplyLayers(_, _, _)
ApplyLayers(layers, l, encoder_output) ==
    IF l > Len(layers) THEN [panicked |-> FALSE, value |-> encoder_output]
    ELSE LET outputs == [b \in 1..Len(encoder_output) |->
                            EncoderLayer_forward(layers[l], encoder_output[b])]
         IN  IF \E b \in 1..Len(encoder_output) : outputs[b].panicked
             THEN [panicked |-> TRUE, value |-> <<>>]
             ELSE ApplyLayers(layers, l + 1,
                              [b \in 1..Len(encoder_output) |-> Unwrap(outputs[b].value)]
                                  \o <<>>)

\* the pooled encoder output through the classification head
PoolAndClassify(self, encoder_output) ==
    LET pooled_output ==
            average_pooling(self, [b \in 1..Len(encoder_output) |-> encoder_output[b].data])
    IN  IF pooled_output.panicked THEN [panicked |-> TRUE, value |-> <<>>]
        ELSE LET logits ==
                     ClassificationHead_forward(
                         self.classification_head,
                         Array2(Len(pooled_output.value), self.config.d_model,
                                pooled_output.value))
             IN  IF logits.panicked THEN [panicked |-> TRUE, value |-> <<>>]
                 ELSE [panicked |-> FALSE, value |-> Unwrap(logits.value).data]

\* the forward pass with the layers applied from the last to the first
Transformer_forward_reversed(self, batched_embeddings) ==
    LET n == Len(self.encoder_layers)
        encoder_output ==
            ApplyLayers([l \in 1..n |-> self.encoder_layers[n + 1 - l]], 1,
                        batched_embeddings)
    IN  IF encoder_output.panicked THEN [panicked |-> TRUE, value |-> <<>>]
        ELSE PoolAndClassify(self, encoder_output.value)

\* Transformer::forward
Transformer_forward(self, batched_embeddings) ==
    LET encoder_output == ApplyLayers(self.encoder_layers, 1, batched_embeddings)
    IN  IF encoder_output.panicked THEN [panicked |-> TRUE, value |-> <<>>]
        ELSE PoolAndClassify(self, encoder_output.value)

-----------------------------------------------------------------------------
(* The forward passes driven with arrays *)

MaxModelDim == 2

MaxFfDim == 2

\* the inputs: with and without rows, of the width of a layer and wider
FwdInputs ==
    {Array2(r, c, AttnData(r, c, seed)) :
        r \in 0..MaxAttnRows, c \in 1..(MaxModelDim + 1), seed \in {0, 1}}

FeedForwardNetworks ==
    {FeedForwardNetworkNew(input_dim, hidden_dim, 0) :
        input_dim \in 1..MaxModelDim, hidden_dim \in 0..MaxFfDim}

EncoderLayers ==
    {EncoderLayerNew(d_model, 1, d_ff, 1, 0) : d_model \in 1..MaxModelDim, d_ff \in 0..MaxFfDim}

FwdInit ==
    /\ optimizer = OptimizerNew("SGD")
    /\ OptIdle
    /\ EmbIdle
    /\ TrainIdle
    /\ FnIdle

\* feed_forward.forward(&x)
FeedForward(self, x) ==
    /\ fn_call.kind = "none"
    /\ fn_call' = [kind |-> "FeedForwardNetwork.forward", self |-> self, x |-> x,
                   result |-> FeedForwardNetwork_forward(self, x)]
    /\ UNCHANGED <<optVars, embVars, trainVars>>

\* encoder_layer.forward(&x)
EncoderForward(self, x) ==
    /\ fn_call.kind = "none"
    /\ fn_call' = [kind |-> "EncoderLayer.forward", self |-> self, x |-> x,
                   result |-> EncoderLayer_forward(self, x)]
    /\ UNCHANGED <<optVars, embVars, trainVars>>

MaxLayers == 2

\* the sequences of a batch: one per number of rows and width
BatchItems ==
    {Array2(r, c, AttnData(r, c, r)) : r \in 0..MaxAttnRows, c \in 1..(MaxModelDim + 1)}

\* the batches of none, one and two sequences
Batches == SeqsUpTo(BatchItems, 2)

\* transformers of no layer up to MaxLayers layers
Transformers ==
    {TransformerNew([num_layers |-> num_layers, d_model |-> d_model, num_heads |-> 1,
                     ff_dim |-> 1, num_classes |-> NumClasses, epsilon |-> 1],
                    SpecialVocab, 0) :
        num_layers \in 0..MaxLayers, d_model \in 1..MaxModelDim}

\* transformer.forward(&batched_embeddings)
TransformerForward(self, batched_embeddings) ==
    /\ fn_call.kind = "none"
    /\ fn_call' = [kind |-> "Transformer.forward", self |-> self,
                   batched_embeddings |-> batched_embeddings,
                   result |-> Transformer_forward(self, batched_embeddings)]
    /\ UNCHANGED <<optVars, embVars, trainVars>>

\* self.average_pooling(&encoder_output)
AveragePooling(self, encoder_output) ==
    /\ fn_call.kind = "none"
    /\ fn_call' = [kind |-> "Transformer.average_pooling", self |-> self,
                   encoder_output |-> encoder_output,
                   result |-> average_pooling(self, encoder_output)]
    /\ UNCHANGED <<optVars, embVars, trainVars>>

FwdNext ==
    \/ \E self \in FeedForwardNetworks, x \in FwdInputs : FeedForward(self, x)
    \/ \E self \in EncoderLayers, x \in FwdInputs : EncoderForward(self, x)
    \/ \E self \in Transformers, batch \in Batches : TransformerForward(self, batch)
    \/ \E self \in Transformers, batch \in Batches :
           AveragePooling(self, [b \in 1..Len(batch) |-> batch[b].data])

FwdSpec == FwdInit /\ [][FwdNext]_vars

-----------------------------------------------------------------------------
(* Properties of the forward passes *)

\* C22: EncoderLayer.forward returns a matrix with exactly the rows and the
\* columns of its input for any valid dimensions, and FeedForwardNetwork.
\* forward returns a matrix of the input's shape when the input has input_dim
\* columns and fails otherwise.
C22_ForwardKeepsShape ==
    /\ fn_call.kind = "EncoderLayer.forward" =>
           (fn_call.x.ncols = fn_call.self.feed_forward.input_dim =>
                /\ ~fn_call.result.panicked
                /\ Unwrap(fn_call.result.value).nrows = fn_call.x.nrows
                /\ Unwrap(fn_call.result.value).ncols = fn_call.x.ncols
                /\ Shape(Unwrap(fn_call.result.value).data) = Shape(fn_call.x.data))
    /\ fn_call.kind = "FeedForwardNetwork.forward" =>
           IF fn_call.x.ncols = fn_call.self.input_dim
           THEN /\ ~fn_call.result.panicked
                /\ Unwrap(fn_call.result.value).nrows = fn_call.x.nrows
                /\ Unwrap(fn_call.result.value).ncols = fn_call.x.ncols
                /\ Shape(Unwrap(fn_call.result.value).data) = Shape(fn_call.x.data)
           ELSE fn_call.result.panicked /\ fn_call.result.value = None

\* an encoder layer of width 2 with a hidden layer of 1 applied to two rows
C22_Witness ==
    /\ fn_call.kind = "EncoderLayer.forward"
    /\ fn_call.self.feed_forward.input_dim = 2
    /\ fn_call.self.feed_forward.hidden_dim = 1
    /\ fn_call.x.nrows = 2 /\ fn_call.x.ncols = 2
    /\ ~fn_call.result.panicked
    /\ Unwrap(fn_call.result.value).data # fn_call.x.data

\* the output of the layers 1..l applied one after the other to a sequence
RECURSIVE EncoderOutput(_, _, _)
EncoderOutput(layers, l, x) ==
    IF l = 0 THEN x
    ELSE Unwrap(EncoderLayer_forward(layers[l], EncoderOutput(layers, l - 1, x)).value)

\* the mean of the column i of a sequence of tokens
ColumnMean(sequence, i) ==
    SumSeq([t \in 1..Len(sequence) |-> sequence[t][i]]) \div Len(sequence)

\* C23: Transformer.forward applies the encoder layers in the order of their
\* index, each to the output of the one before, then pools and applies the
\* classification head, and returns one row of num_classes logits per
\* sequence of the batch.
C23_ForwardLayersInOrder ==
    (fn_call.kind = "Transformer.forward" /\ ~fn_call.result.panicked) =>
        LET self == fn_call.self
            batch == fn_call.batched_embeddings
            logits == fn_call.result.value
            n == Len(self.encoder_layers)
        IN  /\ n = self.config.num_layers
            /\ Len(logits) = Len(batch)
            /\ \A b \in 1..Len(batch) :
                 /\ Len(logits[b]) = self.config.num_classes
                 /\ LET last == EncoderOutput(self.encoder_layers, n, batch[b])
                        pooled == average_pooling(self, <<last.data>>).value
                    IN  logits[b] =
                            Unwrap(ClassificationHead_forward(
                                       self.classification_head,
                                       Array2(1, self.config.d_model, pooled)).value).data[1]

\* two different layers of width 2 applied to a batch of two sequences
C23_Witness ==
    /\ fn_call.kind = "Transformer.forward"
    /\ ~fn_call.result.panicked
    /\ Len(fn_call.self.encoder_layers) = 2
    /\ fn_call.self.encoder_layers[1] # fn_call.self.encoder_layers[2]
    /\ Len(fn_call.batched_embeddings) = 2
    /\ fn_call.batched_embeddings[1].nrows = 2
    /\ fn_call.batched_embeddings[2].nrows = 1
    /\ Len(fn_call.result.value) = 2

\* C26: Transformer.average_pooling returns one vector of d_model entries per
\* sequence of the batch, in the order of the batch: the mean of the tokens,
\* and the vector of zeros for an empty sequence.
C26_PoolingPerSequence ==
    fn_call.kind = "Transformer.average_pooling" =>
        LET d_model == fn_call.self.config.d_model
            batch == fn_call.encoder_output
            r == fn_call.result
            fits == \A b \in 1..Len(batch) : \A t \in 1..Len(batch[b]) :
                        Len(batch[b][t]) <= d_model
        IN  /\ fits <=> ~r.panicked
            /\ ~r.panicked =>
                 /\ Len(r.value) = Len(batch)
                 /\ \A b \in 1..Len(batch) :
                      /\ Len(r.value[b]) = d_model
                      /\ batch[b] = <<>> => r.value[b] = [i \in 1..d_model |-> 0]
                      /\ batch[b] # <<>> =>
                             \A i \in 1..Len(batch[b][1]) :
                                 r.value[b][i] = ColumnMean(batch[b], i)

\* an empty sequence before one of two tokens of width 2
C26_Witness ==
    /\ fn_call.kind = "Transformer.average_pooling"
    /\ fn_call.self.config.d_model = 2
    /\ Len(fn_call.encoder_output) = 2
    /\ fn_call.encoder_output[1] = <<>>
    /\ Len(fn_call.encoder_output[2]) = 2
    /\ ~fn_call.result.panicked
    /\ fn_call.result.value[1] = <<0, 0>>
    /\ fn_call.result.value[2] # <<0, 0>>

-----------------------------------------------------------------------------
(* Properties of Trainer::train as a whole *)

\* the batches of the run: those made by create_batches, before the load
\* those it is going to make
RunBatches ==
    IF pc # "new" THEN Len(batches)
    ELSE IF Loaded.ok THEN Len(create_batches(Loaded.inputs, Loaded.labels))
    ELSE 0

\* the steps a run that does not panic still has to take: the load, per
\* epoch its head, its batch steps and its end, and the return
StepsLeft ==
    CASE pc = "new" -> 2 + epochs * (RunBatches + 2)
      [] pc = "epoch_head" -> 1 + (epochs - epoch) * (RunBatches + 2)
      [] pc = "batch_loop" ->
            2 + (epochs - epoch - 1) * (RunBatches + 2) + (RunBatches - batch_idx)
      [] pc \in {"done", "panicked"} -> 0

\* C27: Trainer.train terminates for every dataset and number of epochs:
\* the number of steps left is a natural number that every step makes
\* smaller, it is 0 only once train has returned or panicked, before that
\* the loop counters stay within their ranges so that a next step exists,
\* and when train returns it has taken exactly epochs times the number of
\* batches batch steps and has reported loss and accuracy exactly once per
\* epoch.
C27_TrainTerminates ==
    /\ [][StepsLeft' < StepsLeft]_vars
    /\ [](StepsLeft >= 0)
    /\ [](StepsLeft = 0 <=> pc \in {"done", "panicked"})
    /\ [](pc = "epoch_head" => epoch <= epochs)
    /\ [](pc = "batch_loop" => epoch < epochs /\ batch_idx <= Len(batches))
    /\ [](pc = "done" =>
            /\ Len(step_log) = epochs * Len(batches)
            /\ Len(reports) = epochs
            /\ \A k \in 1..Len(reports) : reports[k].epoch = k)

\* two epochs over two batches returned with two reports
C27_Witness ==
    /\ pc = "done"
    /\ epochs = 2
    /\ Len(batches) = 2
    /\ Len(step_log) = 4
    /\ Len(reports) = 2

\* the labels of the first n batches
RECURSIVE LabelsProcessed(_)
LabelsProcessed(n) ==
    IF n = 0 THEN 0 ELSE LabelsProcessed(n - 1) + Len(batches[n][2])

\* C28: in every state of Trainer.train correct_predictions <= total_samples,
\* total_samples is the number of labels of the batches processed so far in
\* the current epoch, and correct_predictions, total_samples and epoch_loss
\* start from zero in each epoch, so that the figures reported are those of
\* one epoch.
C28_PerEpochCounters ==
    /\ correct_predictions <= total_samples
    /\ pc \in {"batch_loop", "epoch_head"} /\ batches # <<>> =>
           total_samples = LabelsProcessed(batch_idx)
    /\ pc = "batch_loop" /\ batch_idx = 0 =>
           /\ correct_predictions = 0
           /\ total_samples = 0
           /\ epoch_loss = Finite(0)
    /\ pc = "epoch_head" /\ epoch > 0 /\ batches # <<>> =>
           /\ total_samples = Len(Loaded.labels)
           /\ reports[epoch].accuracy =
                  FScale(FDiv(Finite(1000 * correct_predictions), total_samples), 100)

\* the second epoch after its first batch, with some predictions correct
C28_Witness ==
    /\ pc = "batch_loop"
    /\ epoch = 1
    /\ batch_idx = 1
    /\ Len(batches) = 2
    /\ total_samples = BATCH_SIZE
    /\ correct_predictions > 0
    /\ correct_predictions < total_samples

\* C29: Trainer.train never invokes the Optimizer it owns: whichever type was
\* configured, the moment estimates stay unallocated and the timestep stays
\* 0, and every parameter update subtracts LEARNING_RATE times the gradient
\* entry directly.
C29_OptimizerUntouched ==
    /\ optimizer = OptimizerNew(optimizer.optimizer_type)
    /\ optimizer.moment1 = None /\ optimizer.moment2 = None /\ optimizer.timestep = 0
    /\ BatchDone =>
           LET params == Transformer_parameters_mut(batch_call.pre_model)
               grads == Flatten(batch_call.gradients)
           IN  \A k \in 1..Len(params) :
                   Deref(model, params[k]) =
                       IF k <= Len(grads)
                       THEN Deref(batch_call.pre_model, params[k]) - LEARNING_RATE * grads[k]
                       ELSE Deref(batch_call.pre_model, params[k])

\* a trainer configured with Adam after a batch step that changed the model
C29_Witness ==
    /\ optimizer.optimizer_type = "Adam"
    /\ BatchDone
    /\ model # batch_call.pre_model
    /\ optimizer.timestep = 0

====
